---- MODULE Spec2Model ----
(***************************************************************************)
(* A model of the Ampelos orchestration core: the ConfigLoader's config    *)
(* resolution, the ServiceManager's per-(agent, service) lifecycle, the    *)
(* scoped LowDB store and the ConfigWatcher's hot reload.                   *)
(*                                                                         *)
(* Three specifications share the module:                                  *)
(*   Spec        the ServiceManager (initializeService, eager pass,        *)
(*               cleanupAgent, cleanupAll) under cooperative interleaving  *)
(*   SpecDB      ScopedDatabaseImpl read/update/write over one Low object  *)
(*   SpecReload  ConfigWatcher.handleConfigChange over ConfigLoader        *)
(***************************************************************************)
EXTENDS Integers, Sequences, FiniteSets, TLC

(***************************************************************************)
(* JSON values and objects.  A value carries its JavaScript type so that   *)
(* the schema check can tell a number from a string.                       *)
(***************************************************************************)
Num(n) == <<"num", n>>
Str(s) == <<"str", s>>
Bool(b) == <<"bool", b>>

TypeOf(v) == v[1]

EmptyObj == [k \in {} |-> Num(0)]

\* { ...a, ...b }
Merge(a, b) ==
  [k \in (DOMAIN a) \cup (DOMAIN b) |-> IF k \in DOMAIN b THEN b[k] ELSE a[k]]

\* delete o[key]
Without(o, key) == [k \in (DOMAIN o) \ {key} |-> o[k]]

\* JSON.stringify(a) !== JSON.stringify(b) for objects parsed from JSON
Differs(a, b) == a # b

(***************************************************************************)
(* Modules: the registry handed to the ServiceManager.                     *)
(***************************************************************************)
ServiceNames == {"S1", "S2", "S3"}
ModuleNames == ServiceNames \cup {"T1"}

\* LoadedModule.loaded, LoadedModule.serviceFactory
ModuleLoaded(m) == m \in ModuleNames
HasFactory(m) == m \in ServiceNames

\* which optional hooks each service class implements
HasCleanup(m) == m \in {"S1", "S3"}
HasSetState(m) == m \in {"S1", "S2"}
HasOnConfigChange(m) == m \in {"S2", "S3"}
HasGetState(m) == m \in {"S1", "S2"}

\* manifest.config_schema: S2 declares { max: number } as required,
\* S3 declares { max: number (default 10), lazy: boolean (default false) },
\* S1 and T1 declare no schema. shape is what jsonSchemaToZod makes of the
\* schema: "object" (type object with properties), "record" (type object
\* without properties) or "any" (no type)
NoSchema == [present |-> FALSE, shape |-> "any", keys |-> {}, required |-> {},
             type |-> EmptyObj, default |-> EmptyObj]
ObjectSchema(keys, required, type, default) ==
  [present |-> TRUE, shape |-> "object", keys |-> keys, required |-> required,
   type |-> type, default |-> default]
ConfigSchema(m) ==
  CASE m = "S2" -> ObjectSchema({"max"}, {"max"}, [k \in {"max"} |-> "num"], EmptyObj)
    [] m = "S3" -> ObjectSchema({"max", "lazy"}, {},
                     [k \in {"max", "lazy"} |-> IF k = "max" THEN "num" ELSE "bool"],
                     [k \in {"max", "lazy"} |->
                        IF k = "max" THEN Num(10) ELSE Bool(FALSE)])
    [] OTHER -> NoSchema

(***************************************************************************)
(* ConfigLoader: the agents config and resolveModuleConfig.                *)
(***************************************************************************)
\* external config files under configs/
ExternalFiles ==
  [f \in {"ext1", "ext2", "ext3"} |->
     CASE f = "ext1" -> [k \in {"max"} |-> Num(30)]
       [] f = "ext2" -> [k \in {"x", "y"} |-> IF k = "x" THEN Num(2) ELSE Num(3)]
       [] OTHER -> [k \in {"y"} |-> Num(3)]]

\* getDefaultConfig over a manifest schema
defaultsOf(s) ==
  LET defaults == [k \in DOMAIN s.default |-> s.default[k]]
  IN IF "lazy" \in DOMAIN defaults THEN defaults
     ELSE Merge(defaults, [k \in {"lazy"} |-> Bool(TRUE)])

\* getDefaultConfig
getDefaultConfig(m) == defaultsOf(ConfigSchema(m))

\* validateConfig: z.object(shape) keeps the declared keys, checks their
\* types and requires the required ones; without properties anything passes
validateConfig(cfg, s) ==
  LET bad == {k \in s.keys :
                \/ k \in DOMAIN cfg /\ TypeOf(cfg[k]) # s.type[k]
                \/ k \notin DOMAIN cfg /\ k \in s.required}
  IN IF s.shape = "object"
       THEN [valid |-> bad = {},
             data |-> [k \in s.keys \cap DOMAIN cfg |-> cfg[k]]]
       ELSE [valid |-> TRUE, data |-> cfg]

ResolveError(e) == [ok |-> FALSE, cfg |-> EmptyObj, err |-> e]

\* the end of resolveModuleConfig: validation of the merged object
Validated(s, resolved) ==
  LET validation == validateConfig(resolved, s)
  IN IF ~s.present THEN [ok |-> TRUE, cfg |-> resolved, err |-> ""]
     ELSE IF ~validation.valid THEN ResolveError("invalid configuration")
     ELSE [ok |-> TRUE, cfg |-> validation.data, err |-> ""]

\* variant: an external file that does not exist is skipped
resolveEntrySkipsMissing(s, moduleConfig) ==
  LET hasFile == "config_file" \in DOMAIN moduleConfig
      file == IF hasFile THEN moduleConfig["config_file"][2] ELSE ""
      withFile == IF hasFile /\ file \in DOMAIN ExternalFiles
                    THEN Merge(defaultsOf(s), ExternalFiles[file])
                    ELSE defaultsOf(s)
  IN Validated(s, Merge(withFile, Without(moduleConfig, "config_file")))

\* resolveModuleConfig from the module entry on: defaults, then the
\* external file, then the inline values, then validation
resolveEntry(s, moduleConfig) ==
  LET hasFile == "config_file" \in DOMAIN moduleConfig
      file == IF hasFile THEN moduleConfig["config_file"][2] ELSE ""
      withFile == IF hasFile /\ file \in DOMAIN ExternalFiles
                    THEN Merge(defaultsOf(s), ExternalFiles[file])
                    ELSE defaultsOf(s)
      resolved == Merge(withFile, Without(moduleConfig, "config_file"))
  IN IF hasFile /\ file \notin DOMAIN ExternalFiles
       THEN ResolveError("external config file not found")
       ELSE Validated(s, resolved)

\* resolveModuleConfig once the agent is found: an agent without an entry
\* for the module gets the manifest defaults as they are
resolveFor(s, present, moduleConfig) ==
  IF ~present THEN [ok |-> TRUE, cfg |-> defaultsOf(s), err |-> ""]
  ELSE resolveEntry(s, moduleConfig)

\* resolveModuleConfig over the config the loader holds
resolveModuleConfig(cfg, a, m) ==
  IF cfg.kind = "null" THEN ResolveError("not loaded")
  ELSE IF cfg.kind # "ok" THEN ResolveError("type error")
  ELSE IF a \notin DOMAIN cfg.agents THEN ResolveError("agent not found")
  ELSE IF m \notin DOMAIN cfg.agents[a].modules
    THEN resolveFor(ConfigSchema(m), FALSE, EmptyObj)
  ELSE resolveFor(ConfigSchema(m), TRUE, cfg.agents[a].modules[m])

(***************************************************************************)
(* Agents and the content of configs/agents.json.                          *)
(***************************************************************************)
AgentIds == {"a1", "a2", "ax"}

\* the order of the keys in the files (Object.entries / Object.keys)
AgentOrder == <<"a1", "a2", "ax">>
ModuleOrder == <<"S1", "S2", "S3", "T1">>

Obj1(k, v) == [x \in {k} |-> v]

\* A parsed file: kind "ok" is an object with an agents field; "syntax" does
\* not parse, "null" parses to null, "noagents" is an object without agents.
NoAgents == [a \in {} |-> [name |-> "", enabled |-> FALSE, modules |-> EmptyObj]]
Content(kind, agents) == [kind |-> kind, agents |-> agents]

\* the file at startup: a1 and a2 share a display name, ax is disabled
StartAgents ==
  [a \in AgentIds |->
     CASE a = "a1" ->
            [name |-> "Bot", enabled |-> TRUE,
             modules |-> [m \in {"S1", "S2", "S3"} |->
                CASE m = "S1" -> Obj1("lazy", Bool(FALSE))
                  [] m = "S2" -> Merge(Obj1("max", Num(5)), Obj1("lazy", Bool(FALSE)))
                  [] OTHER -> Merge(Obj1("max", Num(10)),
                                    Obj1("auto_initialize", Bool(TRUE)))]]
       [] a = "a2" ->
            [name |-> "Bot", enabled |-> TRUE,
             modules |-> [m \in {"S1", "S3"} |->
                CASE m = "S1" -> Obj1("lazy", Bool(FALSE))
                  [] OTHER -> Obj1("max", Str("oops"))]]
       [] OTHER ->
            [name |-> "Off", enabled |-> FALSE,
             modules |-> [m \in {"S1"} |-> Obj1("lazy", Bool(FALSE))]]]

StartContent == Content("ok", StartAgents)

\* the same file with a module entry of a2 that names an external config
\* file which does not exist
MissingFileContent ==
  Content("ok", [StartAgents EXCEPT !["a2"].modules =
     [m \in {"S1", "S2", "S3"} |->
        IF m = "S2" THEN Merge(Obj1("max", Num(5)), Obj1("config_file", Str("missing")))
        ELSE StartAgents["a2"].modules[m]]])

(***************************************************************************)
(* Dependency declarations: dependsOn() of the service class and           *)
(* manifest.dependencies, as lists.  One of Graphs is picked at startup.   *)
(***************************************************************************)
NoDeps == [m \in ModuleNames |-> <<>>]
\* a name no loaded module has
Unknown == "U1"
Deps1(m, ds) == [NoDeps EXCEPT ![m] = ds]
Graph(dependsOn, manifest) == [dependsOn |-> dependsOn, manifest |-> manifest]

Graphs ==
  { Graph(NoDeps, NoDeps),
    \* chain S3 -> S2 -> S1
    Graph(Deps1("S2", <<"S1">>), Deps1("S3", <<"S2">>)),
    \* S3 -> {S1, S2} declared twice, S2 -> S1
    Graph(Deps1("S3", <<"S1", "S2">>),
          [NoDeps EXCEPT !["S3"] = <<"S2">>, !["S2"] = <<"S1">>]),
    \* cycle S1 -> S2 -> S1, reached from S3
    Graph([NoDeps EXCEPT !["S1"] = <<"S2">>, !["S3"] = <<"S1">>],
          Deps1("S2", <<"S1">>)),
    \* S2 names a module that provides no service, S3 one that is not loaded
    Graph(Deps1("S3", <<Unknown>>), Deps1("S2", <<"T1">>)) }

RECURSIVE Dedupe(_)
\* [...new Set(list)]
Dedupe(list) ==
  IF list = <<>> THEN <<>>
  ELSE LET rest == Dedupe(SubSeq(list, 1, Len(list) - 1))
           last == list[Len(list)]
       IN IF \E i \in 1..Len(rest) : rest[i] = last THEN rest
          ELSE Append(rest, last)

Range(seq) == {seq[i] : i \in 1..Len(seq)}

\* allDeps of initializeService and of resolveDependencyOrder
AllDeps(g, m) == Dedupe(g.dependsOn[m] \o g.manifest[m])

RECURSIVE Reach(_, _, _)
\* the services reachable from the set frontier along AllDeps
Reach(g, frontier, seen) ==
  IF frontier \subseteq seen THEN seen
  ELSE Reach(g, UNION {Range(AllDeps(g, m)) : m \in frontier \cap ModuleNames},
             seen \cup frontier)

\* the transitive dependency set of m
TransDeps(g, m) == Reach(g, Range(AllDeps(g, m)), {})

\* a cycle is reachable from m
CycleFrom(g, m) ==
  \E x \in (TransDeps(g, m) \cup {m}) \cap ModuleNames : x \in TransDeps(g, x)

(***************************************************************************)
(* Bounds of the model.                                                    *)
(***************************************************************************)
\* operations started in one run
MaxCalls == 2
\* serviceFactory() calls in one run
MaxInst == 3
\* nested initializeService calls of one operation
MaxDepth == 3
\* ScopedDatabase operations called in a run
MaxOps == 3
\* edits made to configs/agents.json in a run
MaxEdits == 2

Procs == {"p1", "p2"}
ProcRank(p) == IF p = "p1" THEN 1 ELSE 2

VARIABLES
  agentsConfig,  \* ConfigLoader.agentsConfig
  registry,      \* AgentRegistry.agents / configs
  graph,         \* the dependency declarations of the loaded modules
  services,      \* ServiceManager.services: agent -> Map entries, in order
  keyOrder,      \* the agent keys of ServiceManager.services, in order
  insts,         \* every object a serviceFactory() call has returned
  procs,         \* the operations in flight, each at an await
  nCalls,        \* operations started so far
  hist,          \* history: what has happened to each (agent, service)
  dbFile,        \* storage/ampelos.db.json: the states subtree, parsed
  dbOwner,       \* which tree Low.data refers to: 0 the startup tree, else
                 \* the tree the read of that operation produced
  ops,           \* the ScopedDatabase operations called so far
  writer,        \* the file writer: the write in flight and the one pending
  cfgFile,       \* configs/agents.json
  dirty,         \* the file changed and the watchFile listener has not run
  isReloading,   \* ConfigWatcher.isReloading
  rl,            \* handleConfigChange: its position and its locals
  nEdits,        \* edits made to configs/agents.json so far
  rc,            \* one resolveModuleConfig call: its inputs and its result
  mem,           \* the in-memory state of the instance of each (agent, service)
  ps,            \* persistAllStates, the restart and the restore after it
  ml             \* ModuleLoader: the module directories and loadedModules

smVars == <<agentsConfig, registry, graph, services, keyOrder, insts, procs,
            nCalls, hist>>
dbVars == <<dbFile, dbOwner, ops, writer>>
rlVars == <<cfgFile, dirty, isReloading, rl, nEdits>>
cfVars == <<rc>>
psVars == <<mem, ps>>
mlVars == <<ml>>
\* the variables outside the service manager, the store and the watcher
otherVars == <<cfVars, psVars, mlVars>>

(***************************************************************************)
(* AgentRegistry                                                           *)
(***************************************************************************)
\* the registry a valid file loads into
RegistryOf(content) ==
  [a \in DOMAIN content.agents |->
     [name |-> content.agents[a].name,
      enabled |-> content.agents[a].enabled,
      modules |-> content.agents[a].modules]]

hasAgent(a) == a \in DOMAIN registry
isEnabled(a) == IF a \in DOMAIN registry THEN registry[a].enabled ELSE FALSE

SelectSeq2(seq, S) == SelectSeq(seq, LAMBDA x : x \in S)

\* getEnabledAgents, in the order of the registry's Map
getEnabledAgents == SelectSeq2(AgentOrder, {a \in DOMAIN registry : registry[a].enabled})

(***************************************************************************)
(* ServiceManager: the cache                                               *)
(***************************************************************************)
Entry(s, i) == [svc |-> s, inst |-> i]

\* getService: the cached instance, 0 for null
getService(a, s) ==
  LET es == services[a]
      hit == {i \in 1..Len(es) : es[i].svc = s}
  IN IF hit = {} THEN 0 ELSE es[CHOOSE i \in hit : TRUE].inst

hasService(a, s) == getService(a, s) # 0

\* Map.set: a present key keeps its place
MapSet(es, s, i) ==
  IF \E k \in 1..Len(es) : es[k].svc = s
    THEN [k \in 1..Len(es) |-> IF es[k].svc = s THEN Entry(s, i) ELSE es[k]]
    ELSE Append(es, Entry(s, i))

Cached(a) == {services[a][k].svc : k \in 1..Len(services[a])}

(***************************************************************************)
(* Instances: st is new (constructed), initing (init invoked), live (init  *)
(* resolved) or failed (init rejected); cleanups counts cleanup() calls.   *)
(* History, taken when init was invoked: seen is what had been cached for  *)
(* the agent up to then, now is what was cached at that moment; swallowed  *)
(* tells that the cleanup() after a rejected init rejected too.            *)
(***************************************************************************)
NewInst(a, s) ==
  [agent |-> a, svc |-> s, st |-> "new", cleanups |-> 0, seen |-> {}, now |-> {},
   swallowed |-> FALSE,
   \* history: the number of the caller's operation that built the instance
   call |-> 0, op |-> "",
   \* history: a persistAllStates pass of the shutdown has written the state
   saved |-> FALSE,
   \* history: the calls of setState, and which await of the restore step
   \* rejected ("read", "setState", "" for none)
   setStates |-> 0, caught |-> "",
   \* the config that initializeService resolved and hands to init
   config |-> resolveModuleConfig(agentsConfig, a, s).cfg]

InstsOf(a, s) == {i \in 1..Len(insts) : insts[i].agent = a /\ insts[i].svc = s}

\* init() has been invoked on instance i
InitInvoked(i) == insts[i].st # "new"
\* init() resolved and cleanup() was never invoked
Live(i) == insts[i].st = "live" /\ insts[i].cleanups = 0

(***************************************************************************)
(* Operations in flight                                                    *)
(***************************************************************************)
Frame(s, pc, i, todo) == [svc |-> s, pc |-> pc, inst |-> i, todo |-> todo]
Item(a, s) == [agent |-> a, svc |-> s]

Idle == [op |-> "idle", plan |-> <<>>, agents |-> <<>>, stack |-> <<>>,
         cSnap |-> <<>>, cDetached |-> FALSE, cIdx |-> 0,
         cSeen |-> <<>>, cThrew |-> FALSE,
         \* history: the number of the operation among the callers' calls
         call |-> 0,
         \* the position of a tool call in the request handler
         tpc |-> "",
         \* shutdown: the persistAllStates pass (1 from server.stop, 2 from
         \* shutdown itself), its position in the Maps, the instance whose
         \* getState or write is awaited
         sPass |-> 0, sA |-> 0, sS |-> 0, sInst |-> 0, spc |-> ""]

\* what an operation that ended handed its caller: an error is a
\* ServiceError (kind "service" or "cycle", with serviceName and agentId)
\* or a plain Error (kind "plain")
Error(op, kind, s, a) == [op |-> op, kind |-> kind, svc |-> s, agent |-> a]

\* every frame of every operation, as (proc, agent, service)
FramesOf(p) ==
  {<<p, k>> : k \in 1..Len(procs[p].stack)}
InFlight(a, s) ==
  {pk \in UNION {FramesOf(p) : p \in Procs} :
     /\ procs[pk[1]].plan # <<>>
     /\ Head(procs[pk[1]].plan).agent = a
     /\ procs[pk[1]].stack[pk[2]].svc = s}

\* no context getService call made yet
NoLookup == [n |-> -1, agent |-> "", name |-> "", auto |-> FALSE, result |-> 0]

HistInit ==
  [lookup |-> NoLookup,
   everCached |-> [a \in AgentIds |-> {}],
   returned |-> [a \in AgentIds |-> [s \in ServiceNames |-> <<>>]],
   failed |-> [a \in AgentIds |-> {}],
   overlapped |-> [a \in AgentIds |-> {}],
   errors |-> {},
   rejected |-> 0,
   cleanupStarted |-> {},
   cleaned |-> {},
   handled |-> {}]

(***************************************************************************)
(* ServiceManager.resolveDependencyOrder                                   *)
(***************************************************************************)
RECURSIVE visit(_, _, _, _)
RECURSIVE visitAll(_, _, _, _)

\* st = [order, visited, visiting, err]; err names the service at which
\* the circular dependency was detected
\* variant: a service that is being visited is passed over
NoCycleError(s) == ""

\* throw new ServiceError("Circular dependency detected ...")
CycleError(s) == s

visit(g, names, s, st) ==
  IF st.err # "" THEN st
  ELSE IF s \in st.visiting THEN [st EXCEPT !.err = CycleError(s)]
  ELSE IF s \in st.visited THEN st
  ELSE
    LET deps == IF ModuleLoaded(s) /\ HasFactory(s)
                  THEN SelectSeq2(AllDeps(g, s), Range(names))
                  ELSE <<>>
        st1 == visitAll(g, names, deps, [st EXCEPT !.visiting = @ \cup {s}])
    IN IF st1.err # "" THEN st1
       ELSE [st1 EXCEPT !.visiting = @ \ {s}, !.visited = @ \cup {s},
                        !.order = Append(@, s)]

visitAll(g, names, list, st) ==
  IF list = <<>> THEN st
  ELSE visitAll(g, names, Tail(list), visit(g, names, Head(list), st))

resolveDependencyOrder(g, names) ==
  visitAll(g, names, names,
           [order |-> <<>>, visited |-> {}, visiting |-> {}, err |-> ""])

\* the modules of agent a that initializeEagerServices brings up
eagerServices(a) ==
  LET mods == registry[a].modules
      notLazy(m) == IF "lazy" \in DOMAIN mods[m] THEN mods[m]["lazy"] = Bool(FALSE)
                    ELSE FALSE
  IN SelectSeq2(ModuleOrder,
                {m \in DOMAIN mods : ModuleLoaded(m) /\ HasFactory(m) /\ notLazy(m)})

(***************************************************************************)
(* ServiceManager.initializeService, one action per stretch between awaits *)
(***************************************************************************)
CurAgent(p) == Head(procs[p].plan).agent
Top(p) == procs[p].stack[Len(procs[p].stack)]
Running(p) ==
  procs[p].op \in {"init", "eager", "tool"} /\ procs[p].stack # <<>>

\* variant: the cache is not consulted on entry
EntryOutcomeNoExisting(a, s) ==
  IF ~ModuleLoaded(s) THEN "nomodule"
  ELSE IF ~HasFactory(s) THEN "nofactory"
  ELSE IF ~isEnabled(a) THEN "disabled"
  ELSE "go"

\* the checks before the first await
EntryOutcome(a, s) ==
  IF hasService(a, s) THEN "existing"
  ELSE IF ~ModuleLoaded(s) THEN "nomodule"
  ELSE IF ~HasFactory(s) THEN "nofactory"
  ELSE IF ~isEnabled(a) THEN "disabled"
  ELSE "go"

NoteFail(h, a, svcs) == [h EXCEPT !.failed[a] = @ \cup svcs]
NoteOverlap(h, a, s) ==
  IF InFlight(a, s) # {} THEN [h EXCEPT !.overlapped[a] = @ \cup {s}] ELSE h
NoteReturn(h, a, s, i) == [h EXCEPT !.returned[a][s] = Append(@, i)]
NoteError(h, e) == [h EXCEPT !.errors = @ \cup {e}, !.rejected = @ + 1]

\* the operation rec calls initializeService for the head of its plan
StartCall(rec, h) ==
  LET a == Head(rec.plan).agent
      s == Head(rec.plan).svc
      out == EntryOutcome(a, s)
  IN IF out = "existing"
       THEN [rec |-> IF rec.op = "init" THEN Idle
                     ELSE [rec EXCEPT !.plan = Tail(@)],
             hist |-> NoteReturn(h, a, s, getService(a, s))]
     ELSE IF out = "go"
       THEN [rec |-> [rec EXCEPT !.stack = <<Frame(s, "config", 0, <<>>)>>],
             hist |-> NoteOverlap(h, a, s)]
     ELSE [rec |-> Idle,
           hist |-> NoteError(NoteFail(h, a, {s}), Error(rec.op, "service", s, a))]

RECURSIVE AdvanceEager(_, _)
\* the loops of initializeEagerServices up to the next await
AdvanceEager(rec, h) ==
  IF rec.plan # <<>> THEN StartCall(rec, h)
  ELSE IF rec.agents = <<>> THEN [rec |-> Idle, hist |-> h]
  ELSE
    LET a == Head(rec.agents)
        r == resolveDependencyOrder(graph, eagerServices(a))
    IN IF r.err # ""
         THEN [rec |-> Idle, hist |-> NoteError(h, Error(rec.op, "cycle", r.err, a))]
         ELSE AdvanceEager(
                [rec EXCEPT !.agents = Tail(@),
                            !.plan = [k \in 1..Len(r.order) |-> Item(a, r.order[k])]],
                h)

\* variant: the eager pass catches the rejection and goes on with the next
\* service of its list
FailCallContinues(p, kind, s, ins) ==
  /\ procs' = [procs EXCEPT ![p] =
       IF @.op = "eager" THEN [@ EXCEPT !.stack = <<>>, !.plan = Tail(@)] ELSE Idle]
  /\ insts' = ins
  /\ hist' = NoteError(hist, Error(procs[p].op, kind, s, CurAgent(p)))
  /\ UNCHANGED <<services, keyOrder>>

\* variant: the manager starts the rejected initialization over
RetryCall(rec) ==
  [rec EXCEPT !.stack = <<Frame(Head(rec.plan).svc, "config", 0, <<>>)>>]

\* the rejection reaches the caller: nothing of the operation is left
EndCall(rec) == Idle

\* the operation of p rejects: the error passes through every caller frame
FailCall(p, kind, s, ins) ==
  LET a == CurAgent(p)
      svcs == {procs[p].stack[k].svc : k \in 1..Len(procs[p].stack)} \cup {s}
  IN /\ procs' = [procs EXCEPT ![p] = EndCall(procs[p])]
     /\ insts' = ins
     /\ hist' = NoteError(NoteFail(hist, a, svcs), Error(procs[p].op, kind, s, a))
     /\ UNCHANGED <<services, keyOrder>>

\* variant: the dependency loop is skipped
FirstMissingSkipped(a, todo) == 0

\* the first dependency in todo that is not cached, 0 when all are
FirstMissing(a, todo) ==
  LET miss == {k \in 1..Len(todo) : ~hasService(a, todo[k])}
  IN IF miss = {} THEN 0 ELSE CHOOSE k \in miss : \A j \in miss : k <= j

\* the dependency loop from the top frame of st, then service.init
StepDeps(p, st, ins) ==
  LET n == Len(st)
      top == st[n]
      a == CurAgent(p)
      k == FirstMissing(a, top.todo)
  IN IF k = 0
       THEN /\ insts' = [ins EXCEPT ![top.inst].st = "initing",
                                    ![top.inst].seen = hist.everCached[a],
                                    ![top.inst].now = Cached(a)]
            /\ procs' = [procs EXCEPT ![p].stack =
                           [st EXCEPT ![n] = Frame(top.svc, "init", top.inst, <<>>)]]
            /\ UNCHANGED <<services, keyOrder, hist>>
     ELSE
       LET d == top.todo[k]
           out == EntryOutcome(a, d)
           rest == SubSeq(top.todo, k + 1, Len(top.todo))
       IN IF out = "go"
            THEN /\ n < MaxDepth
                 /\ procs' = [procs EXCEPT ![p].stack =
                      Append([st EXCEPT ![n] = Frame(top.svc, "deps", top.inst, rest)],
                             Frame(d, "config", 0, <<>>))]
                 /\ insts' = ins
                 /\ hist' = NoteOverlap(hist, a, d)
                 /\ UNCHANGED <<services, keyOrder>>
          ELSE FailCall(p, "service", d, ins)

\* (agent, service) pairs with a non-empty persisted subtree at startup
Persisted == {<<"a1", "S1">>, <<"a2", "S2">>}

\* p is the slot the next operation runs in: the slots are interchangeable,
\* so a new operation takes the first idle one
FreeSlot(p) ==
  /\ procs[p].op = "idle"
  /\ \A q \in Procs : procs[q].op = "idle" => ProcRank(p) <= ProcRank(q)

\* a caller invokes initializeService(a, s)
StartInit(p, a, s) ==
  /\ FreeSlot(p)
  /\ nCalls < MaxCalls
  /\ LET r == StartCall([Idle EXCEPT !.op = "init", !.plan = <<Item(a, s)>>,
                                     !.call = nCalls + 1], hist)
     IN /\ procs' = [procs EXCEPT ![p] = r.rec]
        /\ hist' = r.hist
  /\ nCalls' = nCalls + 1
  /\ UNCHANGED <<agentsConfig, registry, dbVars, rlVars, otherVars, graph, services, keyOrder, insts>>

\* main invokes initializeEagerServices
StartEager(p) ==
  /\ FreeSlot(p)
  /\ nCalls < MaxCalls
  /\ LET r == AdvanceEager([Idle EXCEPT !.op = "eager", !.agents = getEnabledAgents,
                                        !.call = nCalls + 1],
                           hist)
     IN /\ procs' = [procs EXCEPT ![p] = r.rec]
        /\ hist' = r.hist
  /\ nCalls' = nCalls + 1
  /\ UNCHANGED <<agentsConfig, registry, dbVars, rlVars, otherVars, graph, services, keyOrder, insts>>

\* initializeEagerServices resumes after an awaited initializeService
NextItem(p) ==
  /\ procs[p].op = "eager"
  /\ procs[p].stack = <<>>
  /\ LET r == AdvanceEager(procs[p], hist)
     IN /\ procs' = [procs EXCEPT ![p] = r.rec]
        /\ hist' = r.hist
  /\ UNCHANGED <<agentsConfig, registry, dbVars, rlVars, otherVars, graph, services, keyOrder, insts, nCalls>>

\* resolveModuleConfig settles; the factory builds the instance and the
\* dependency loop starts
ConfigDone(p) ==
  /\ Running(p)
  /\ Top(p).pc = "config"
  /\ LET a == CurAgent(p)
         s == Top(p).svc
         n == Len(procs[p].stack)
         r == resolveModuleConfig(agentsConfig, a, s)
     IN IF ~r.ok THEN FailCall(p, "plain", s, insts)
        ELSE /\ Len(insts) < MaxInst
             /\ StepDeps(p,
                  [procs[p].stack EXCEPT
                     ![n] = Frame(s, "deps", Len(insts) + 1, AllDeps(graph, s))],
                  Append(insts, [NewInst(a, s) EXCEPT !.call = procs[p].call,
                                                       !.op = procs[p].op]))
  /\ UNCHANGED <<agentsConfig, registry, dbVars, rlVars, otherVars, graph, nCalls>>

\* an awaited initializeService of a dependency has returned
ContinueDeps(p) ==
  /\ Running(p)
  /\ Top(p).pc = "deps"
  /\ StepDeps(p, procs[p].stack, insts)
  /\ UNCHANGED <<agentsConfig, registry, dbVars, rlVars, otherVars, graph, nCalls>>

\* this.services.get(agentId).set(serviceName, service); return service
CacheAndReturn(p, ins) ==
  LET a == CurAgent(p)
      top == Top(p)
      n == Len(procs[p].stack)
  IN /\ services' = [services EXCEPT ![a] = MapSet(@, top.svc, top.inst)]
     /\ keyOrder' = IF services[a] = <<>> THEN Append(keyOrder, a) ELSE keyOrder
     /\ hist' = [NoteReturn(hist, a, top.svc, top.inst)
                   EXCEPT !.everCached[a] = @ \cup {top.svc}]
     /\ procs' = [procs EXCEPT ![p] =
          IF n > 1 THEN [@ EXCEPT !.stack = SubSeq(@, 1, n - 1)]
          ELSE IF @.op = "init" THEN Idle
          ELSE IF @.op = "tool" THEN [@ EXCEPT !.stack = <<>>, !.tpc = "ready"]
          ELSE [@ EXCEPT !.stack = <<>>, !.plan = Tail(@)]]
     /\ insts' = ins

\* service.init settles
InitDone(p) ==
  /\ Running(p)
  /\ Top(p).pc = "init"
  /\ LET top == Top(p)
         n == Len(procs[p].stack)
     IN \E ok \in BOOLEAN :
          IF ok
            THEN /\ insts' = [insts EXCEPT ![top.inst].st = "live"]
                 /\ procs' = [procs EXCEPT ![p].stack[n].pc = "restore"]
                 /\ UNCHANGED <<services, keyOrder, hist>>
          ELSE IF HasCleanup(top.svc)
            THEN /\ insts' = [insts EXCEPT ![top.inst].st = "failed",
                                           ![top.inst].cleanups = @ + 1]
                 /\ procs' = [procs EXCEPT ![p].stack[n].pc = "failCleanup"]
                 /\ UNCHANGED <<services, keyOrder, hist>>
          ELSE FailCall(p, "service", top.svc,
                        [insts EXCEPT ![top.inst].st = "failed"])
  /\ UNCHANGED <<agentsConfig, registry, dbVars, rlVars, otherVars, graph, nCalls>>

\* variant: a rejection in the restore step reaches the outer catch
RestoreUncaught(ok) == ok

\* whether initializeService goes on to cache the instance once an await of
\* the restore step has resolved (ok) or rejected: the inner try/catch logs
\* a rejection, so it goes on either way
RestoreCaught(ok) == TRUE

\* the restore step ends: the instance is cached, or the rejection fails the
\* operation
RestoreEnd(p, ok, ins) ==
  IF RestoreCaught(ok) THEN CacheAndReturn(p, ins)
  ELSE FailCall(p, "service", Top(p).svc, [ins EXCEPT ![Top(p).inst].st = "failed"])

\* the awaited db.read() of the restore step settles
RestoreDone(p) ==
  /\ Running(p)
  /\ Top(p).pc = "restore"
  /\ LET top == Top(p)
     IN \E ok \in BOOLEAN :
          IF ~ok
            THEN RestoreEnd(p, FALSE, [insts EXCEPT ![top.inst].caught = "read"])
          ELSE IF HasSetState(top.svc) /\ <<CurAgent(p), top.svc>> \in Persisted
            THEN /\ procs' = [procs EXCEPT ![p].stack[Len(procs[p].stack)].pc = "setState"]
                 /\ insts' = [insts EXCEPT ![top.inst].setStates = @ + 1]
                 /\ UNCHANGED <<services, keyOrder, hist>>
          ELSE RestoreEnd(p, TRUE, insts)
  /\ UNCHANGED <<agentsConfig, registry, dbVars, rlVars, otherVars, graph, nCalls>>

\* service.setState settles; a rejection is caught and logged
SetStateDone(p) ==
  /\ Running(p)
  /\ Top(p).pc = "setState"
  /\ \E ok \in BOOLEAN :
       RestoreEnd(p, ok, IF ok THEN insts
                         ELSE [insts EXCEPT ![Top(p).inst].caught = "setState"])
  /\ UNCHANGED <<agentsConfig, registry, dbVars, rlVars, otherVars, graph, nCalls>>

\* variant: a rejected cleanup() leaves the catch block as it is
FailCleanupUncaught(ok) == IF ok THEN "service" ELSE "plain"

\* what the catch block throws once the cleanup() it awaited has resolved
\* (ok) or rejected: the inner try/catch logs a rejection, and the
\* ServiceError is thrown either way
FailCleanupThrows(ok) == "service"

\* the cleanup() after a rejected init settles
FailCleanupDone(p) ==
  /\ Running(p)
  /\ Top(p).pc = "failCleanup"
  /\ \E ok \in BOOLEAN :
       FailCall(p, FailCleanupThrows(ok), Top(p).svc,
                [insts EXCEPT ![Top(p).inst].swallowed = ~ok])
  /\ UNCHANGED <<agentsConfig, registry, dbVars, rlVars, otherVars, graph, nCalls>>

(***************************************************************************)
(* ServiceContext.getService, the lookup a service makes through the       *)
(* context it was handed in init                                           *)
(***************************************************************************)
\* ConfigLoader.getModuleConfigObject
getModuleConfigObject(a, m) ==
  IF /\ agentsConfig.kind = "ok"
     /\ a \in DOMAIN agentsConfig.agents
     /\ m \in DOMAIN agentsConfig.agents[a].modules
    THEN [found |-> TRUE, cfg |-> agentsConfig.agents[a].modules[m]]
    ELSE [found |-> FALSE, cfg |-> EmptyObj]

\* moduleConfig?.auto_initialize ?? false
autoInit(a, name) ==
  LET c == getModuleConfigObject(a, name)
  IN /\ c.found
     /\ "auto_initialize" \in DOMAIN c.cfg
     /\ c.cfg["auto_initialize"] = Bool(TRUE)

\* variant: a miss on a module with auto_initialize builds and caches it
ContextMissAutoInit(a, name, auto) ==
  IF auto /\ HasFactory(name) /\ Len(insts) < MaxInst
    THEN [insts |-> Append(insts, [NewInst(a, name) EXCEPT !.st = "live"]),
          cache |-> MapSet(services[a], name, Len(insts) + 1),
          result |-> Len(insts) + 1]
    ELSE [insts |-> insts, cache |-> services[a], result |-> 0]

\* the service is not cached: both branches throw a ServiceError (result 0)
ContextMiss(a, name, auto) ==
  [insts |-> insts, cache |-> services[a], result |-> 0]

\* a service of agent a calls context.getService(name)
ContextGetService(a, name) ==
  /\ nCalls < MaxCalls
  /\ \E i \in 1..Len(insts) : insts[i].agent = a /\ InitInvoked(i)
  /\ LET service == getService(a, name)
         auto == autoInit(a, name)
         r == IF service = 0 THEN ContextMiss(a, name, auto)
              ELSE [insts |-> insts, cache |-> services[a], result |-> service]
     IN /\ insts' = r.insts
        /\ services' = [services EXCEPT ![a] = r.cache]
        /\ hist' = [hist EXCEPT !.lookup =
                      [n |-> nCalls, agent |-> a, name |-> name, auto |-> auto,
                       result |-> r.result]]
  /\ nCalls' = nCalls + 1
  /\ UNCHANGED <<agentsConfig, registry, dbVars, rlVars, otherVars, graph, keyOrder, procs>>

(***************************************************************************)
(* ServiceManager.cleanupAgent and cleanupAll.  The loop iterates the Map  *)
(* object it fetched: entries set while it is suspended are visited too,   *)
(* and a Map that another operation has deleted from the cache meanwhile   *)
(* is iterated as it was (cSnap).  History of the cleanupAgent call in     *)
(* progress: cSeen lists the instances whose cleanup() it has invoked,     *)
(* cThrew tells that one of those it awaited rejected.                     *)
(***************************************************************************)
Cleaning(p) == procs[p].op \in {"cleanupAgent", "cleanupAll"}

FirstFrom(es, from) ==
  LET hit == {k \in from..Len(es) : HasCleanup(es[k].svc)}
  IN IF hit = {} THEN 0 ELSE CHOOSE k \in hit : \A j \in hit : k <= j

\* history: cleanupAgent(a) has gone through the entries es and dropped the
\* Map of a, when Len(insts) instances had been built
NoteCleaned(h, a, es) ==
  [h EXCEPT !.cleaned =
     @ \cup {[agent |-> a, svc |-> es[k].svc, at |-> Len(insts)] : k \in 1..Len(es)}]

\* cleanupAgent(Head(rec.agents)) runs from entry `from` to its next await
CleanupStep(p, rec, from, h) ==
  LET a == Head(rec.agents)
      es == IF rec.cDetached THEN rec.cSnap ELSE services[a]
      k == FirstFrom(es, from)
      done == IF rec.op = "cleanupAgent" THEN Idle
              ELSE [rec EXCEPT !.agents = Tail(@), !.cIdx = 0,
                               !.cDetached = FALSE, !.cSnap = <<>>,
                               !.cSeen = <<>>, !.cThrew = FALSE]
  IN /\ IF k # 0
          THEN /\ insts' = [insts EXCEPT ![es[k].inst].cleanups = @ + 1]
               /\ hist' = h
               /\ procs' = [procs EXCEPT ![p] =
                             [rec EXCEPT !.cIdx = k, !.cSeen = Append(@, es[k].inst)]]
               /\ UNCHANGED <<services, keyOrder>>
          ELSE \* this.services.delete(agentId)
               /\ services' = [services EXCEPT ![a] = <<>>]
               /\ hist' = NoteCleaned(h, a, es)
               /\ keyOrder' = SelectSeq2(keyOrder, AgentIds \ {a})
               /\ procs' = [q \in Procs |->
                    IF q = p THEN done
                    ELSE IF /\ Cleaning(q) /\ procs[q].cIdx > 0
                            /\ Head(procs[q].agents) = a /\ ~procs[q].cDetached
                      THEN [procs[q] EXCEPT !.cDetached = TRUE, !.cSnap = services[a]]
                    ELSE procs[q]]
               /\ UNCHANGED insts

\* a caller invokes cleanupAgent(a)
StartCleanupAgent(p, a) ==
  /\ FreeSlot(p)
  /\ nCalls < MaxCalls
  /\ CleanupStep(p, [Idle EXCEPT !.op = "cleanupAgent", !.agents = <<a>>], 1,
                 [hist EXCEPT !.cleanupStarted = @ \cup {a}])
  /\ nCalls' = nCalls + 1
  /\ UNCHANGED <<agentsConfig, registry, dbVars, rlVars, otherVars, graph>>

\* shutdown invokes cleanupAll
StartCleanupAll(p) ==
  /\ FreeSlot(p)
  /\ nCalls < MaxCalls
  /\ IF keyOrder = <<>>
       THEN /\ procs' = [procs EXCEPT ![p] = Idle]
            /\ UNCHANGED <<services, keyOrder, insts, hist>>
       ELSE CleanupStep(p, [Idle EXCEPT !.op = "cleanupAll", !.agents = keyOrder], 1,
                        [hist EXCEPT !.cleanupStarted = @ \cup {Head(keyOrder)}])
  /\ nCalls' = nCalls + 1
  /\ UNCHANGED <<agentsConfig, registry, dbVars, rlVars, otherVars, graph>>

\* cleanupAll resumes after an awaited cleanupAgent
NextCleanup(p) ==
  /\ procs[p].op = "cleanupAll"
  /\ procs[p].cIdx = 0
  /\ IF procs[p].agents = <<>>
       THEN /\ procs' = [procs EXCEPT ![p] = Idle]
            /\ UNCHANGED <<services, keyOrder, insts, hist>>
       ELSE CleanupStep(p, procs[p], 1,
              [hist EXCEPT !.cleanupStarted = @ \cup {Head(procs[p].agents)}])
  /\ UNCHANGED <<agentsConfig, registry, dbVars, rlVars, otherVars, graph, nCalls>>

\* variant: a rejected cleanup() is not caught
CleanupUncaught(ok) == ok

\* try { await service.cleanup() } catch { log }: the loop goes on whether
\* the hook resolved (ok) or rejected
CleanupCaught(ok) == TRUE

\* an awaited service.cleanup() settles
CleanupHookDone(p) ==
  /\ Cleaning(p)
  /\ procs[p].cIdx > 0
  /\ \E ok \in BOOLEAN :
       IF CleanupCaught(ok)
         THEN CleanupStep(p, [procs[p] EXCEPT !.cThrew = @ \/ ~ok],
                          procs[p].cIdx + 1, hist)
         ELSE /\ procs' = [procs EXCEPT ![p] = Idle]
              /\ hist' = NoteError(hist, Error(procs[p].op, "plain", "",
                                               Head(procs[p].agents)))
              /\ UNCHANGED <<services, keyOrder, insts>>
  /\ UNCHANGED <<agentsConfig, registry, dbVars, rlVars, otherVars, graph, nCalls>>

(***************************************************************************)
(* shutdown: server.stop() and shutdown itself each run persistAllStates,  *)
(* then cleanupAll runs and the process exits                              *)
(***************************************************************************)
\* the next entry with getState at or after entry is of agent key ia, in the
\* order the two Maps are iterated; <<0, 0>> when there is none
RECURSIVE NextExport(_, _)
NextExport(ia, is) ==
  IF ia > Len(keyOrder) THEN <<0, 0>>
  ELSE IF is > Len(services[keyOrder[ia]]) THEN NextExport(ia + 1, 1)
  ELSE IF HasGetState(services[keyOrder[ia]][is].svc) THEN <<ia, is>>
  ELSE NextExport(ia, is + 1)

\* the shutdown of p goes on from entry (ia, is) of its pass to the next
\* await: a getState call, the second pass, or cleanupAll
ShutStep(p, rec, ia, is, ins) ==
  LET nx == NextExport(ia, is)
      second == NextExport(1, 1)
      at(r, pos, pass) ==
        [r EXCEPT !.sPass = pass, !.sA = pos[1], !.sS = pos[2], !.spc = "getState",
                  !.sInst = services[keyOrder[pos[1]]][pos[2]].inst]
  IN IF nx # <<0, 0>>
       THEN /\ procs' = [procs EXCEPT ![p] = at(rec, nx, rec.sPass)]
            /\ insts' = ins
            /\ UNCHANGED <<services, keyOrder, hist>>
     ELSE IF rec.sPass = 1 /\ second # <<0, 0>>
       THEN /\ procs' = [procs EXCEPT ![p] = at(rec, second, 2)]
            /\ insts' = ins
            /\ UNCHANGED <<services, keyOrder, hist>>
     ELSE IF keyOrder = <<>>
       THEN /\ procs' = [procs EXCEPT ![p] = Idle]
            /\ insts' = ins
            /\ UNCHANGED <<services, keyOrder, hist>>
     ELSE /\ ins = insts
          /\ CleanupStep(p, [Idle EXCEPT !.op = "cleanupAll", !.agents = keyOrder], 1,
                         [hist EXCEPT !.cleanupStarted = @ \cup {Head(keyOrder)}])

\* SIGINT or SIGTERM: shutdown starts with the first persistAllStates pass
StartShutdown(p) ==
  /\ FreeSlot(p)
  /\ nCalls < MaxCalls
  /\ \A q \in Procs : procs[q].op \notin {"shutdown", "cleanupAll"}
  /\ ShutStep(p, [Idle EXCEPT !.op = "shutdown", !.sPass = 1], 1, 1, insts)
  /\ nCalls' = nCalls + 1
  /\ UNCHANGED <<agentsConfig, registry, dbVars, rlVars, otherVars, graph>>

\* the awaited getState settles; a rejection is caught and the pass goes on
ShutGetStateDone(p) ==
  /\ procs[p].op = "shutdown"
  /\ procs[p].spc = "getState"
  /\ \E ok \in BOOLEAN :
       IF ok
         THEN /\ procs' = [procs EXCEPT ![p].spc = "write"]
              /\ UNCHANGED <<services, keyOrder, hist, insts>>
         ELSE ShutStep(p, procs[p], procs[p].sA, procs[p].sS + 1, insts)
  /\ UNCHANGED <<agentsConfig, registry, dbVars, rlVars, otherVars, graph, nCalls>>

\* the awaited db.write(state) settles; a rejection is caught
ShutWriteDone(p) ==
  /\ procs[p].op = "shutdown"
  /\ procs[p].spc = "write"
  /\ \E ok \in BOOLEAN :
       ShutStep(p, procs[p], procs[p].sA, procs[p].sS + 1,
                IF ok THEN [insts EXCEPT ![procs[p].sInst].saved = TRUE] ELSE insts)
  /\ UNCHANGED <<agentsConfig, registry, dbVars, rlVars, otherVars, graph, nCalls>>

(***************************************************************************)
(* MCPServer: the CallToolRequest handler.  A tool is named by the module  *)
(* it belongs to.                                                          *)
(***************************************************************************)
\* module.tools is set
HasTools(m) == m \in {"S1", "S2", "T1"}
\* manifest.provides.includes('service')
ProvidesService(m) == m \in ServiceNames

\* history: the tool handler of module m is invoked for agent a
NoteHandled(h, rec) ==
  LET a == Head(rec.plan).agent
      m == Head(rec.plan).svc
  IN [h EXCEPT !.handled = @ \cup {[agent |-> a, module |-> m, call |-> rec.call,
                                    cached |-> hasService(a, m)]}]

\* the handler returns an error result without calling the tool handler
ToolError(h, a, m) == NoteError(h, Error("tool", "result", m, a))

\* the service of the tool's module has to be brought up first
ToolNeedsService(a, m) == ProvidesService(m) /\ ~hasService(a, m)

\* a CallToolRequest for a tool of module m arrives with agent_id a: the
\* agent is verified and updateLastRequestTime is awaited
StartTool(p, a, m) ==
  /\ FreeSlot(p)
  /\ nCalls < MaxCalls
  /\ IF ~hasAgent(a) \/ ~isEnabled(a)
       THEN /\ hist' = ToolError(hist, a, m)
            /\ UNCHANGED procs
       ELSE /\ procs' = [procs EXCEPT ![p] =
                 [Idle EXCEPT !.op = "tool", !.plan = <<Item(a, m)>>,
                              !.tpc = "request", !.call = nCalls + 1]]
            /\ UNCHANGED hist
  /\ nCalls' = nCalls + 1
  /\ UNCHANGED <<agentsConfig, registry, dbVars, rlVars, otherVars, graph, services,
                 keyOrder, insts>>

\* updateLastRequestTime has settled: the tool is looked up in the modules
\* of the agent; its service is initialized if it is not cached, else the
\* tool handler is called
ToolLookup(p) ==
  /\ procs[p].op = "tool"
  /\ procs[p].tpc = "request"
  /\ LET a == CurAgent(p)
         m == Head(procs[p].plan).svc
     IN IF \/ ~hasAgent(a)
           \/ m \notin DOMAIN registry[a].modules
           \/ ~ModuleLoaded(m) \/ ~HasTools(m)
          THEN /\ procs' = [procs EXCEPT ![p] = Idle]
               /\ hist' = ToolError(hist, a, m)
        ELSE IF ToolNeedsService(a, m)
          THEN LET r == StartCall([procs[p] EXCEPT !.tpc = "init"], hist)
               IN /\ procs' = [procs EXCEPT ![p] = r.rec]
                  /\ hist' = r.hist
        ELSE /\ procs' = [procs EXCEPT ![p].tpc = "handler"]
             /\ hist' = NoteHandled(hist, procs[p])
  /\ UNCHANGED <<agentsConfig, registry, dbVars, rlVars, otherVars, graph, services,
                 keyOrder, insts, nCalls>>

\* the awaited initializeService has returned the instance: the tool
\* handler is called
ToolInvoke(p) ==
  /\ procs[p].op = "tool"
  /\ procs[p].tpc = "ready"
  /\ procs' = [procs EXCEPT ![p].tpc = "handler"]
  /\ hist' = NoteHandled(hist, procs[p])
  /\ UNCHANGED <<agentsConfig, registry, dbVars, rlVars, otherVars, graph, services,
                 keyOrder, insts, nCalls>>

\* the tool handler settles and the result, or its error, is returned
ToolDone(p) ==
  /\ procs[p].op = "tool"
  /\ procs[p].tpc = "handler"
  /\ procs' = [procs EXCEPT ![p] = Idle]
  /\ UNCHANGED <<agentsConfig, registry, dbVars, rlVars, otherVars, graph, services,
                 keyOrder, insts, nCalls, hist>>

(***************************************************************************)
(* Database and ScopedDatabaseImpl.  Every scoped store shares one Low     *)
(* object: Low.read() replaces Low.data with a fresh parse of the file,    *)
(* Low.write() serialises Low.data when it is called and hands the text to *)
(* the file writer, which writes one text at a time and keeps only the     *)
(* latest text handed to it meanwhile.  A state is the set of marks the    *)
(* operations have put in it; the empty set is {}.                         *)
(***************************************************************************)
\* getDB(agentId, serviceName): the path states.<agentId>.<serviceName>
DBPairs == {<<"a1", "S1">>, <<"a2", "S1">>, <<"a1", "S2">>}

\* the value of a path whose key is missing from the tree; every other
\* value is an object, the set of the marks written into it
Absent == {-1}

\* the file after Database.initialize: mark 0 under the persisted pairs and
\* no key for the others
DBStart == [pr \in DBPairs |-> IF pr \in Persisted THEN {0} ELSE Absent]

\* value ?? {}
orEmpty(v) == IF v = Absent THEN {} ELSE v

\* variant: the walk hands back whatever it finds at the end of the path
scopedReadRaw(tree, pr) == tree[pr]

\* the path walk of read(): {} when a key of the path is missing, else
\* current ?? {}
scopedRead(tree, pr) == orEmpty(tree[pr])

Op(op, pr) == [op |-> op, pair |-> pr, pc |-> "reading", tree |-> DBStart,
               cur |-> {}, res |-> {}]

NoWrite == [data |-> DBStart, waiters |-> {}]
WriterIdle == [locked |-> NoWrite, next |-> NoWrite]

\* Low.write(): data is serialised now; the writer takes the text at once
\* when idle, else the text replaces the pending one
lowWrite(i, data) ==
  IF writer.locked.waiters = {}
    THEN [writer EXCEPT !.locked = [data |-> data, waiters |-> {i}]]
    ELSE [writer EXCEPT !.next = [data |-> data,
                                  waiters |-> writer.next.waiters \cup {i}]]

\* a caller invokes read(), update(updater) or write(state) on a store
DbCall(op, pr) ==
  /\ Len(ops) < MaxOps
  /\ ops' = Append(ops, Op(op, pr))
  /\ UNCHANGED <<dbFile, dbOwner, writer>>
  /\ UNCHANGED <<smVars, rlVars, otherVars>>

\* await this.db.read() settles.  read() walks the path and returns;
\* write(state) runs its synchronous updater, assigns and calls Low.write;
\* update(updater) calls the updater with the current state
DbReadDone(i) ==
  /\ ops[i].pc = "reading"
  /\ dbOwner' = i
  /\ LET o == ops[i]
         fresh == [ops EXCEPT ![i].tree = dbFile]
         wrote == [fresh EXCEPT ![i].tree[o.pair] = {i}, ![i].pc = "writing",
                                ![i].res = {i}]
     IN CASE o.op = "read" ->
               /\ ops' = [fresh EXCEPT ![i].res = scopedRead(dbFile, o.pair),
                                       ![i].pc = "done"]
               /\ UNCHANGED writer
          [] o.op = "write" ->
               /\ ops' = wrote
               /\ writer' = lowWrite(i, wrote[i].tree)
          [] OTHER ->
               /\ ops' = [fresh EXCEPT ![i].cur = orEmpty(dbFile[o.pair]),
                                       ![i].pc = "mutating"]
               /\ UNCHANGED writer
  /\ UNCHANGED dbFile
  /\ UNCHANGED <<smVars, rlVars, otherVars>>

\* the updater of update() settles: current[lastKey] = newState on the tree
\* this call walked, then Low.write() of whatever Low.data is by now
DbUpdaterDone(i) ==
  /\ ops[i].pc = "mutating"
  /\ LET o == ops[i]
         newState == o.cur \cup {i}
         os == [ops EXCEPT ![i].tree[o.pair] = newState, ![i].pc = "writing",
                           ![i].res = newState]
     IN /\ ops' = os
        /\ writer' = lowWrite(i, IF dbOwner = 0 THEN DBStart ELSE os[dbOwner].tree)
  /\ UNCHANGED <<dbFile, dbOwner>>
  /\ UNCHANGED <<smVars, rlVars, otherVars>>

\* the write in flight reaches the file; the calls waiting on it resume and
\* return, and the pending text, if any, goes in flight
DbCommit ==
  /\ writer.locked.waiters # {}
  /\ dbFile' = writer.locked.data
  /\ ops' = [i \in 1..Len(ops) |->
               IF i \in writer.locked.waiters THEN [ops[i] EXCEPT !.pc = "done"]
               ELSE ops[i]]
  /\ writer' = [locked |-> writer.next, next |-> NoWrite]
  /\ UNCHANGED dbOwner
  /\ UNCHANGED <<smVars, rlVars, otherVars>>

DbOps == {"read", "update", "write"}

(***************************************************************************)
(* ConfigWatcher: hot reload of configs/agents.json                        *)
(***************************************************************************)
\* nothing read yet
Unread == Content("none", NoAgents)

\* a file in which every module value passes its schema
ReloadAgents == [StartAgents EXCEPT !["a2"].modules["S3"] = Obj1("max", Num(3))]
ReloadStart == Content("ok", ReloadAgents)

WithModule(a, m, v) == Content("ok", [ReloadAgents EXCEPT ![a].modules[m] = v])

\* what an edit may leave in the file
FileEdits ==
  { ReloadStart,
    WithModule("a1", "S2", Merge(Obj1("max", Num(7)), Obj1("lazy", Bool(FALSE)))),
    WithModule("a1", "S2", Merge(Obj1("max", Str("oops")), Obj1("lazy", Bool(FALSE)))),
    WithModule("a1", "S1", Obj1("lazy", Bool(TRUE))),
    \* two values of a1 changed at once
    Content("ok", [ReloadAgents EXCEPT
       !["a1"].modules["S2"] = Merge(Obj1("max", Num(7)), Obj1("lazy", Bool(FALSE))),
       !["a1"].modules["S3"] = Obj1("max", Num(11))]),
    \* the disabled agent enabled; an agent removed; a module removed
    Content("ok", [ReloadAgents EXCEPT !["ax"].enabled = TRUE]),
    Content("ok", [a \in {"a1", "ax"} |-> ReloadAgents[a]]),
    Content("ok", [ReloadAgents EXCEPT !["a1"].modules =
                     [m \in {"S1", "S2"} |-> ReloadAgents["a1"].modules[m]]]),
    \* an agent entry without a name
    Content("ok", [ReloadAgents EXCEPT !["a2"].name = ""]),
    Content("syntax", NoAgents),
    Content("null", NoAgents),
    Content("noagents", NoAgents) }

\* ConfigLoader.loadAgentsConfig over the file content: the parse result is
\* assigned before it is looked at
loadAgentsConfig(held, content) ==
  CASE content.kind = "syntax" -> [cfg |-> held, ok |-> FALSE]
    [] content.kind = "null" -> [cfg |-> content, ok |-> FALSE]
    [] OTHER -> [cfg |-> content, ok |-> TRUE]

HookCall(a, m, old, new) == [agent |-> a, module |-> m, old |-> old, new |-> new]

\* handleModuleConfigChange: the hook of the cached instance, if it has one
handleModuleConfigChange(a, m, old, new) ==
  IF getService(a, m) # 0 /\ HasOnConfigChange(m)
    THEN <<HookCall(a, m, old, new)>>
    ELSE <<>>

\* the modules of one agent, in the order of the new file
RECURSIVE reloadModules(_, _, _, _)
reloadModules(oldConfig, newConfig, a, ms) ==
  IF ms = <<>> THEN <<>>
  ELSE
    LET m == Head(ms)
        mine == IF /\ m \in DOMAIN newConfig.agents[a].modules
                   /\ m \in DOMAIN oldConfig.agents[a].modules
                   /\ Differs(oldConfig.agents[a].modules[m],
                              newConfig.agents[a].modules[m])
                  THEN handleModuleConfigChange(a, m,
                         oldConfig.agents[a].modules[m],
                         newConfig.agents[a].modules[m])
                  ELSE <<>>
    IN mine \o reloadModules(oldConfig, newConfig, a, Tail(ms))

\* reloadAffectedAgents: the onConfigChange calls it makes, in order
RECURSIVE reloadAffectedAgents(_, _, _)
reloadAffectedAgents(oldConfig, newConfig, as) ==
  IF as = <<>> THEN <<>>
  ELSE
    LET a == Head(as)
        mine == IF a \in DOMAIN newConfig.agents /\ a \in DOMAIN oldConfig.agents
                  THEN reloadModules(oldConfig, newConfig, a, ModuleOrder)
                  ELSE <<>>
    IN mine \o reloadAffectedAgents(oldConfig, newConfig, Tail(as))

\* the cached instances that implement onConfigChange
HookPairs ==
  {pr \in AgentIds \X ServiceNames :
     getService(pr[1], pr[2]) # 0 /\ HasOnConfigChange(pr[2])}

\* rl.throwing: the pairs whose onConfigChange rejects when invoked in this
\* reload; handleModuleConfigChange catches and logs the rejection, so the
\* calls made do not depend on it.
\* history in rl: active counts the handleConfigChange activations that
\* have not reached their finally block, skipped tells that a notification
\* was dropped since the last activation began
RlIdle == [pc |-> "idle", prev |-> Unread, loaded |-> Unread, hooks |-> <<>>,
           result |-> "none", regContent |-> Unread, regTodo |-> <<>>,
           active |-> 0, skipped |-> FALSE, throwing |-> {},
           \* history: the registry when the reload started, and the agent
           \* whose entry AgentRegistry.loadConfig rejected
           regBefore |-> <<>>, rejected |-> ""]

\* variant: handleConfigChange ends without its finally block
FinallySkipped == TRUE

\* isReloading as the finally block of handleConfigChange leaves it
FinallyReset == FALSE

\* the bookkeeping at the end of handleConfigChange
RlFinish(r, result) ==
  [r EXCEPT !.pc = "idle", !.result = result, !.active = @ - 1]

\* variant: the listener and handleConfigChange do not look at isReloading
MayReloadUnguarded == TRUE

\* the guard of the listener and of handleConfigChange
MayReload == ~isReloading

\* someone saves configs/agents.json
EditFile(c) ==
  /\ nEdits < MaxEdits
  /\ c # cfgFile
  /\ cfgFile' = c
  /\ dirty' = TRUE
  /\ nEdits' = nEdits + 1
  /\ UNCHANGED <<isReloading, rl>>
  /\ UNCHANGED <<smVars, dbVars, otherVars>>

\* the watchFile listener runs with no reload in flight: handleConfigChange
\* sets isReloading and waits for its timer
WatchFire ==
  /\ dirty
  /\ MayReload
  /\ dirty' = FALSE
  /\ isReloading' = TRUE
  /\ rl' = [RlIdle EXCEPT !.pc = "wait", !.prev = agentsConfig, !.result = "running",
                          !.active = rl.active + 1, !.regBefore = registry]
  /\ UNCHANGED <<cfgFile, nEdits>>
  /\ UNCHANGED <<smVars, dbVars, otherVars>>

\* the watchFile listener runs during a reload and does nothing
WatchSkip ==
  /\ dirty
  /\ ~MayReload
  /\ dirty' = FALSE
  /\ rl' = [rl EXCEPT !.skipped = TRUE]
  /\ UNCHANGED <<cfgFile, isReloading, nEdits>>
  /\ UNCHANGED <<smVars, dbVars, otherVars>>

\* handleConfigChange after its timer: loadAgentsConfig reads the file and
\* replaces the loader's config; oldConfig is then read back from the
\* loader; reloadAffectedAgents compares the two and awaits each hook
LoadStep ==
  /\ rl.pc = "wait"
  /\ LET ld == loadAgentsConfig(agentsConfig, cfgFile)
         newConfig == ld.cfg
         oldConfig == ld.cfg
         r == [rl EXCEPT !.loaded = cfgFile]
     IN /\ agentsConfig' = ld.cfg
        /\ IF ~ld.ok \/ newConfig.kind = "noagents"
             THEN rl' = [r EXCEPT !.pc = "restore"]
             ELSE \E bad \in SUBSET HookPairs :
                    rl' = [r EXCEPT !.pc = "registry", !.throwing = bad,
                             !.hooks = reloadAffectedAgents(oldConfig, newConfig,
                                                            AgentOrder)]
  /\ UNCHANGED <<cfgFile, dirty, isReloading, nEdits>>
  /\ UNCHANGED <<registry, graph, services, keyOrder, insts, procs, nCalls, hist>>
  /\ UNCHANGED <<dbVars, otherVars>>

\* the checks of loadConfig on an agent entry: name, enabled, modules
InvalidAgentEntry(entry) == entry.name = ""

\* the loop of loadConfig reaches the entry of Head(todo): it throws on an
\* invalid entry, else it awaits db.read() for the agent
RegistryNext(r, todo) ==
  IF InvalidAgentEntry(r.regContent.agents[Head(todo)])
    THEN [r EXCEPT !.pc = "restore", !.regTodo = todo, !.rejected = Head(todo)]
    ELSE [r EXCEPT !.pc = "agents", !.regTodo = todo]

\* AgentRegistry.loadConfig reads the file again, checks the agents field,
\* clears its maps and starts on the first agent
RegistryStep ==
  /\ rl.pc = "registry"
  /\ IF cfgFile.kind # "ok"
       THEN /\ rl' = [rl EXCEPT !.pc = "restore"]
            /\ UNCHANGED <<registry, isReloading>>
       ELSE LET todo == SelectSeq2(AgentOrder, DOMAIN cfgFile.agents)
            IN /\ registry' = RegistryOf(Content("ok", NoAgents))
               /\ IF todo = <<>>
                    THEN /\ rl' = RlFinish(rl, "ok")
                         /\ isReloading' = FinallyReset
                    ELSE /\ rl' = RegistryNext([rl EXCEPT !.regContent = cfgFile], todo)
                         /\ UNCHANGED isReloading
  /\ UNCHANGED <<cfgFile, dirty, nEdits>>
  /\ UNCHANGED <<agentsConfig, graph, services, keyOrder, insts, procs, nCalls, hist>>
  /\ UNCHANGED <<dbVars, otherVars>>

\* the db.read() awaited for an agent settles and the agent enters the
\* maps; after the last agent syncToDatabase runs and the reload is over
RegistryAgent ==
  /\ rl.pc = "agents"
  /\ LET a == Head(rl.regTodo)
         rest == Tail(rl.regTodo)
         one == RegistryOf(rl.regContent)[a]
     IN /\ registry' = [x \in DOMAIN registry \cup {a} |->
                          IF x = a THEN one ELSE registry[x]]
        /\ IF rest = <<>>
             THEN /\ rl' = RlFinish([rl EXCEPT !.regTodo = rest], "ok")
                  /\ isReloading' = FinallyReset
             ELSE /\ rl' = RegistryNext(rl, rest)
                  /\ UNCHANGED isReloading
  /\ UNCHANGED <<cfgFile, dirty, nEdits>>
  /\ UNCHANGED <<agentsConfig, graph, services, keyOrder, insts, procs, nCalls, hist>>
  /\ UNCHANGED <<dbVars, otherVars>>

\* the catch block: loadAgentsConfig once more, its failure only logged
RestoreStep ==
  /\ rl.pc = "restore"
  /\ agentsConfig' = loadAgentsConfig(agentsConfig, cfgFile).cfg
  /\ rl' = RlFinish(rl, "failed")
  /\ isReloading' = FinallyReset
  /\ UNCHANGED <<cfgFile, dirty, nEdits>>
  /\ UNCHANGED <<registry, graph, services, keyOrder, insts, procs, nCalls, hist>>
  /\ UNCHANGED <<dbVars, otherVars>>

\* the database and the watcher as construction leaves them
DbInit ==
  /\ dbFile = DBStart
  /\ dbOwner = 0
  /\ ops = <<>>
  /\ writer = WriterIdle

RlInit(content) ==
  /\ cfgFile = content
  /\ dirty = FALSE
  /\ isReloading = FALSE
  /\ rl = RlIdle
  /\ nEdits = 0

\* no resolveModuleConfig call under observation
RcOff == [pc |-> "off", schema |-> NoSchema, present |-> FALSE, entry |-> EmptyObj,
          result |-> ResolveError("")]

\* no snapshot under observation
PsOff == [pc |-> "off", queue |-> <<>>, idx |-> 0, state |-> {}, tree |-> DBStart,
          got |-> <<>>, before |-> <<>>, start |-> DBStart]

\* loadedModules as a new ModuleLoader has it
NoModules == [k \in {} |-> [name |-> "", path |-> <<"", "">>, loaded |-> FALSE,
                            error |-> "", factory |-> FALSE, tools |-> FALSE]]

\* no module discovery under observation
MlOff == [pc |-> "off", disk |-> {}, todo |-> <<>>, reg |-> NoModules, runs |-> 0,
          prev |-> {}, found |-> {}]

OtherQuiet ==
  /\ rc = RcOff
  /\ mem = <<>>
  /\ ps = PsOff
  /\ ml = MlOff

(***************************************************************************)
(* The ServiceManager specification                                        *)
(***************************************************************************)
Init ==
  /\ \/ agentsConfig = StartContent /\ graph \in Graphs
     \/ agentsConfig = MissingFileContent /\ graph = Graph(NoDeps, NoDeps)
  /\ registry = RegistryOf(agentsConfig)
  /\ services = [a \in AgentIds |-> <<>>]
  /\ keyOrder = <<>>
  /\ insts = <<>>
  /\ procs = [p \in Procs |-> Idle]
  /\ nCalls = 0
  /\ hist = HistInit
  /\ DbInit
  /\ RlInit(StartContent)
  /\ OtherQuiet

\* the calls a run may make: the services of a1, of a2 the one it does not
\* declare and the one whose config is invalid, and the disabled agent
InitCalls ==
  ({"a1"} \X ServiceNames) \cup {<<"a2", "S2">>, <<"a2", "S3">>, <<"ax", "S1">>}
CleanupCalls == {"a1", "a2"}

Next ==
  \/ \E a \in AgentIds, name \in ModuleNames : ContextGetService(a, name)
  \/ \E p \in Procs :
    \/ \E c \in InitCalls : StartInit(p, c[1], c[2])
    \/ StartEager(p)
    \/ NextItem(p)
    \/ ConfigDone(p)
    \/ ContinueDeps(p)
    \/ InitDone(p)
    \/ RestoreDone(p)
    \/ SetStateDone(p)
    \/ FailCleanupDone(p)
    \/ \E a \in CleanupCalls : StartCleanupAgent(p, a)
    \/ StartCleanupAll(p)
    \/ NextCleanup(p)
    \/ CleanupHookDone(p)

vars == <<smVars, dbVars, rlVars, otherVars>>

Spec == Init /\ [][Next]_vars

(***************************************************************************)
(* The ScopedDatabase specification: calls on the stores of a started      *)
(* system, no service operation in flight                                  *)
(***************************************************************************)
SmQuiet(content) ==
  /\ agentsConfig = content
  /\ registry = RegistryOf(content)
  /\ graph = Graph(NoDeps, NoDeps)
  /\ keyOrder = <<>>
  /\ services = [a \in AgentIds |-> <<>>]
  /\ insts = <<>>
  /\ procs = [p \in Procs |-> Idle]
  /\ nCalls = 0
  /\ hist = HistInit

InitDB == SmQuiet(StartContent) /\ DbInit /\ RlInit(StartContent) /\ OtherQuiet

NextDB ==
  \/ \E op \in DbOps, pr \in DBPairs : DbCall(op, pr)
  \/ \E i \in 1..Len(ops) : DbReadDone(i)
  \/ \E i \in 1..Len(ops) : DbUpdaterDone(i)
  \/ DbCommit

SpecDB == InitDB /\ [][NextDB]_vars

(***************************************************************************)
(* The ConfigWatcher specification: edits of configs/agents.json after the *)
(* eager services of a valid file are up and a tool call has brought up    *)
(* S3 of a1                                                                *)
(***************************************************************************)
Up(a, s, seen) == [agent |-> a, svc |-> s, st |-> "live", cleanups |-> 0,
                   seen |-> seen, now |-> seen, swallowed |-> FALSE, call |-> 0,
                   op |-> "", saved |-> FALSE, setStates |-> 0, caught |-> "",
                   config |-> resolveModuleConfig(ReloadStart, a, s).cfg]

InitReload ==
  /\ agentsConfig = ReloadStart
  /\ registry = RegistryOf(ReloadStart)
  /\ graph = Graph(NoDeps, NoDeps)
  /\ insts = <<Up("a1", "S1", {}), Up("a1", "S2", {"S1"}), Up("a2", "S1", {}),
               Up("a1", "S3", {"S1", "S2"})>>
  /\ services = [a \in AgentIds |->
                   CASE a = "a1" -> <<Entry("S1", 1), Entry("S2", 2), Entry("S3", 4)>>
                     [] a = "a2" -> <<Entry("S1", 3)>>
                     [] OTHER -> <<>>]
  /\ keyOrder = <<"a1", "a2">>
  /\ procs = [p \in Procs |-> Idle]
  /\ nCalls = 0
  /\ hist = [HistInit EXCEPT !.everCached = [a \in AgentIds |->
                CASE a = "a1" -> {"S1", "S2", "S3"} [] a = "a2" -> {"S1"} [] OTHER -> {}]]
  /\ DbInit
  /\ RlInit(ReloadStart)
  /\ OtherQuiet

NextReload ==
  \/ \E c \in FileEdits : EditFile(c)
  \/ WatchFire
  \/ WatchSkip
  \/ LoadStep
  \/ RegistryStep
  \/ RegistryAgent
  \/ RestoreStep

SpecReload == InitReload /\ [][NextReload]_vars

(***************************************************************************)
(* The resolveModuleConfig specification: one call of the function on a    *)
(* manifest schema and a module entry of agents.json                       *)
(***************************************************************************)
XYTypes == [k \in {"x", "y"} |-> "num"]
DefaultX == [k \in {"x"} |-> Num(1)]

\* the manifests: no schema; x declared with default 1; x and y declared;
\* y required as well; the same properties under a schema without a type;
\* type object without properties
ResolveSchemas ==
  { NoSchema,
    ObjectSchema({"x"}, {}, [k \in {"x"} |-> "num"], DefaultX),
    ObjectSchema({"x", "y"}, {}, XYTypes, DefaultX),
    ObjectSchema({"x", "y"}, {"y"}, XYTypes, DefaultX),
    [ObjectSchema({"x", "y"}, {}, XYTypes, DefaultX) EXCEPT !.shape = "any"],
    [ObjectSchema({}, {}, EmptyObj, EmptyObj) EXCEPT !.shape = "record"] }

\* the inline values of a module entry
ResolveInlines ==
  { EmptyObj,
    Obj1("y", Num(4)),
    Obj1("x", Num(5)),
    Merge(Obj1("x", Num(5)), Obj1("y", Num(4))),
    Obj1("y", Str("s")) }

\* the config_file of a module entry: none, two that exist, one that does not
ResolveFiles == {"", "ext2", "ext3", "missing"}

ResolveEntries ==
  { IF f = "" THEN i ELSE Merge(i, Obj1("config_file", Str(f))) :
      i \in ResolveInlines, f \in ResolveFiles }

InitResolve ==
  /\ SmQuiet(StartContent) /\ DbInit /\ RlInit(StartContent)
  /\ mem = <<>> /\ ps = PsOff /\ ml = MlOff
  /\ \E s \in ResolveSchemas :
       \/ \E e \in ResolveEntries :
            rc = [RcOff EXCEPT !.pc = "call", !.schema = s, !.present = TRUE,
                               !.entry = e]
       \/ rc = [RcOff EXCEPT !.pc = "call", !.schema = s]

\* the call returns or throws
ResolveCall ==
  /\ rc.pc = "call"
  /\ rc' = [rc EXCEPT !.pc = "done",
                      !.result = resolveFor(rc.schema, rc.present, rc.entry)]
  /\ UNCHANGED <<smVars, dbVars, rlVars, psVars, mlVars>>

NextResolve == ResolveCall

SpecResolve == InitResolve /\ [][NextResolve]_vars

(***************************************************************************)
(* The snapshot specification: persistAllStates over the cached instances, *)
(* then a restart (a new ServiceManager over the same store) and the       *)
(* initializeService calls that bring the services back, with no other     *)
(* store operation in between.  A state is an object, the set of its marks *)
(***************************************************************************)
\* the pairs cached when the snapshot starts
PersistPairs == {<<"a1", "S1">>, <<"a1", "S2">>, <<"a1", "S3">>, <<"a2", "S1">>}

\* the states a service can hold and export
StateValues == {{}, {1}, {1, 2}}

\* the in-memory state a service has when its init has resolved
InitMem(s) == IF s = "S1" THEN {1} ELSE {}

\* the file when the snapshot starts
PersistFile ==
  [pr \in PersistPairs |->
     IF pr \in {<<"a1", "S1">>, <<"a1", "S3">>} THEN {0} ELSE Absent]

\* this.services.entries() and, per agent, services.entries(), in order
CacheEntries ==
  LET RECURSIVE walk(_)
      walk(as) ==
        IF as = <<>> THEN <<>>
        ELSE [k \in 1..Len(services[Head(as)]) |->
                <<Head(as), services[Head(as)][k].svc>>] \o walk(Tail(as))
  IN walk(keyOrder)

NoGot == [tried |-> FALSE, ok |-> FALSE, value |-> {}, wrote |-> FALSE]

InitPersist ==
  /\ agentsConfig = ReloadStart
  /\ registry = RegistryOf(ReloadStart)
  /\ graph = Graph(NoDeps, NoDeps)
  /\ insts = <<Up("a1", "S1", {}), Up("a1", "S2", {"S1"}), Up("a2", "S1", {}),
               Up("a1", "S3", {"S1", "S2"})>>
  /\ services = [a \in AgentIds |->
                   CASE a = "a1" -> <<Entry("S1", 1), Entry("S2", 2), Entry("S3", 4)>>
                     [] a = "a2" -> <<Entry("S1", 3)>>
                     [] OTHER -> <<>>]
  /\ keyOrder = <<"a1", "a2">>
  /\ procs = [p \in Procs |-> Idle]
  /\ nCalls = 0
  /\ hist = HistInit
  /\ dbFile = PersistFile /\ dbOwner = 0 /\ ops = <<>> /\ writer = WriterIdle
  /\ RlInit(ReloadStart)
  /\ rc = RcOff /\ ml = MlOff
  /\ mem \in [PersistPairs -> StateValues]
  /\ \A pr \in PersistPairs : ~HasGetState(pr[2]) => mem[pr] = {}
  /\ ps = [PsOff EXCEPT !.pc = "idle", !.tree = PersistFile, !.start = PersistFile,
                        !.got = [pr \in PersistPairs |-> NoGot]]

\* what the snapshot specification leaves alone
PsFrame ==
  UNCHANGED <<agentsConfig, registry, graph, procs, nCalls, hist, dbOwner, ops,
              writer, rlVars, cfVars, mlVars>>

\* variant: the loop has no try/catch, a rejection ends persistAllStates
PersistUncaught(r, from) == [r EXCEPT !.pc = "persisted", !.idx = 0]

\* the loops of persistAllStates from entry from on, up to the next
\* service.getState() call; a rejection caught by the catch block comes
\* back here
PersistAdvance(r, from) ==
  LET next == {k \in from..Len(r.queue) : HasGetState(r.queue[k][2])}
  IN IF next = {} THEN [r EXCEPT !.pc = "persisted", !.idx = 0]
     ELSE [r EXCEPT !.pc = "getState",
                    !.idx = CHOOSE k \in next : \A j \in next : k <= j]

\* after a getState or a write that succeeded the loop goes on
PersistNext(r, from) ==
  LET next == {k \in from..Len(r.queue) : HasGetState(r.queue[k][2])}
  IN IF next = {} THEN [r EXCEPT !.pc = "persisted", !.idx = 0]
     ELSE [r EXCEPT !.pc = "getState",
                    !.idx = CHOOSE k \in next : \A j \in next : k <= j]

\* shutdown or the periodic timer calls persistAllStates
PersistStart ==
  /\ ps.pc = "idle"
  /\ ps' = PersistNext([ps EXCEPT !.queue = CacheEntries, !.before = mem], 1)
  /\ UNCHANGED <<services, keyOrder, insts, dbFile, mem>>
  /\ PsFrame

\* await service.getState() settles
GetStateDone ==
  /\ ps.pc = "getState"
  /\ LET pr == ps.queue[ps.idx]
     IN \E ok \in BOOLEAN :
          ps' = IF ok
                  THEN [ps EXCEPT !.pc = "dbRead", !.state = mem[pr],
                                  !.got[pr] = [NoGot EXCEPT !.tried = TRUE, !.ok = TRUE,
                                                            !.value = mem[pr]]]
                  ELSE PersistAdvance([ps EXCEPT !.got[pr].tried = TRUE], ps.idx + 1)
  /\ UNCHANGED <<services, keyOrder, insts, dbFile, mem>>
  /\ PsFrame

\* db.write(state): the Low.read() of update() settles, the updater hands
\* back state, which is assigned on the tree, and Low.write() starts
PersistReadDone ==
  /\ ps.pc = "dbRead"
  /\ ps' = [ps EXCEPT !.pc = "dbWrite",
                      !.tree = [dbFile EXCEPT ![ps.queue[ps.idx]] = ps.state]]
  /\ UNCHANGED <<services, keyOrder, insts, dbFile, mem>>
  /\ PsFrame

\* Low.write() settles: the file holds the tree, or the write rejected
PersistWriteDone ==
  /\ ps.pc = "dbWrite"
  /\ LET pr == ps.queue[ps.idx]
     IN \E ok \in BOOLEAN :
          IF ok
            THEN /\ dbFile' = ps.tree
                 /\ ps' = PersistNext([ps EXCEPT !.got[pr].wrote = TRUE], ps.idx + 1)
            ELSE /\ dbFile' = dbFile
                 /\ ps' = PersistAdvance(ps, ps.idx + 1)
  /\ UNCHANGED <<services, keyOrder, insts, mem>>
  /\ PsFrame

\* the process ends and main builds a new ServiceManager over the store
Restart ==
  /\ ps.pc = "persisted"
  /\ services' = [a \in AgentIds |-> <<>>]
  /\ keyOrder' = <<>>
  /\ insts' = <<>>
  /\ mem' = [pr \in PersistPairs |-> {}]
  /\ ps' = [ps EXCEPT !.pc = "restarted"]
  /\ UNCHANGED dbFile
  /\ PsFrame

\* initializeService(a, s) after the restart, up to await service.init
ReInit(a, s) ==
  /\ ps.pc = "restarted"
  /\ <<a, s>> \in PersistPairs
  /\ EntryOutcome(a, s) = "go"
  /\ resolveModuleConfig(agentsConfig, a, s).ok
  /\ insts' = Append(insts, [NewInst(a, s) EXCEPT !.st = "initing"])
  /\ ps' = [ps EXCEPT !.pc = "init", !.queue = <<<<a, s>>>>, !.idx = Len(insts) + 1]
  /\ UNCHANGED <<services, keyOrder, dbFile, mem>>
  /\ PsFrame

\* the instance of ps is cached and initializeService returns
ReCache(pr) ==
  /\ services' = [services EXCEPT ![pr[1]] = MapSet(@, pr[2], ps.idx)]
  /\ keyOrder' = IF services[pr[1]] = <<>> THEN Append(keyOrder, pr[1]) ELSE keyOrder

\* if (state && Object.keys(state).length > 0)
RestoresStateIfAny(state) == state # {}

\* service.init resolves and the db.read() of the restore step settles
ReInitDone ==
  /\ ps.pc = "init"
  /\ LET pr == ps.queue[1]
         state == scopedRead(dbFile, pr)
     IN /\ insts' = [insts EXCEPT ![ps.idx].st = "live"]
        /\ mem' = [mem EXCEPT ![pr] = InitMem(pr[2])]
        /\ IF HasSetState(pr[2]) /\ RestoresStateIfAny(state)
             THEN /\ ps' = [ps EXCEPT !.pc = "setState", !.state = state]
                  /\ UNCHANGED <<services, keyOrder>>
             ELSE /\ ps' = [ps EXCEPT !.pc = "restarted"]
                  /\ ReCache(pr)
  /\ UNCHANGED dbFile
  /\ PsFrame

\* service.setState(state) resolves: the service holds the state again
ReSetStateDone ==
  /\ ps.pc = "setState"
  /\ mem' = [mem EXCEPT ![ps.queue[1]] = ps.state]
  /\ ps' = [ps EXCEPT !.pc = "restarted"]
  /\ ReCache(ps.queue[1])
  /\ UNCHANGED <<insts, dbFile>>
  /\ PsFrame

NextPersist ==
  \/ PersistStart
  \/ GetStateDone
  \/ PersistReadDone
  \/ PersistWriteDone
  \/ Restart
  \/ \E pr \in PersistPairs : ReInit(pr[1], pr[2])
  \/ ReInitDone
  \/ ReSetStateDone

SpecPersist == InitPersist /\ [][NextPersist]_vars

(***************************************************************************)
(* The module discovery specification: loadAllModules over the module      *)
(* directories, run again after the directories changed                    *)
(***************************************************************************)
\* a module directory: the catalog it lies in (tools/, services/ or a
\* direct child of modules/), its name, what reading manifest.json gives
\* ("unreadable", "invalid" or "ok" with name and provides) and whether the
\* imports of service.ts and tool.ts succeed
Dir(catalog, dir, manifest, name, provides, serviceOk, toolOk) ==
  [catalog |-> catalog, dir |-> dir, manifest |-> manifest, name |-> name,
   provides |-> provides, serviceOk |-> serviceOk, toolOk |-> toolOk]

ModuleDirs ==
  { Dir("tool", "m1", "ok", "m1", {"tool"}, TRUE, TRUE),
    Dir("service", "m2", "ok", "m2", {"service"}, TRUE, TRUE),
    Dir("both", "m1", "unreadable", "", {}, TRUE, TRUE),
    Dir("both", "m3", "ok", "m2", {"service", "tool"}, FALSE, TRUE),
    Dir("tool", "m3", "ok", "m3", {"service"}, TRUE, TRUE),
    Dir("service", "m1", "invalid", "", {}, TRUE, TRUE),
    Dir("both", "m2", "ok", "m2", {"tool"}, TRUE, FALSE),
    Dir("both", "m4", "ok", "m4", {"service", "tool"}, TRUE, TRUE) }

\* how many loadAllModules runs and how many directories a behaviour has
MaxRuns == 2
MaxDirs == 3

PathOf(d) == <<d.catalog, d.dir>>

\* loadStandaloneTools, loadStandaloneServices, loadPairedModules: the
\* directories in the order the three readdir loops reach them
CatalogRank(c) == CASE c = "tool" -> 1 [] c = "service" -> 2 [] OTHER -> 3
ScanBefore(d, e) ==
  \/ CatalogRank(d.catalog) < CatalogRank(e.catalog)
  \/ d.catalog = e.catalog /\ d.dir \in {"m1"} /\ e.dir \in {"m2", "m3", "m4"}
  \/ d.catalog = e.catalog /\ d.dir \in {"m2"} /\ e.dir \in {"m3", "m4"}
  \/ d.catalog = e.catalog /\ d.dir \in {"m3"} /\ e.dir \in {"m4"}
RECURSIVE ScanOrder(_)
ScanOrder(ds) ==
  IF ds = {} THEN <<>>
  ELSE LET d == CHOOSE x \in ds : \A y \in ds \ {x} : ScanBefore(x, y)
       IN <<d>> \o ScanOrder(ds \ {d})

\* this.loadedModules.set(key, record)
ModulePut(reg, key, rec) ==
  [k \in DOMAIN reg \cup {key} |-> IF k = key THEN rec ELSE reg[k]]

ModuleRecord(d, name, loaded, error, factory, tools) ==
  [name |-> name, path |-> PathOf(d), loaded |-> loaded, error |-> error,
   factory |-> factory, tools |-> tools]

\* the directory of d does not load into a module that is loaded
LoadFails(d) ==
  \/ d.manifest # "ok"
  \/ d.catalog = "tool" /\ "tool" \notin d.provides
  \/ d.catalog = "service" /\ "service" \notin d.provides
  \/ "service" \in d.provides /\ ~d.serviceOk
  \/ "tool" \in d.provides /\ ~d.toolOk

\* loadModule(modulePath, expectedType) on loadedModules
loadModule(reg, d) ==
  IF d.manifest # "ok"
    THEN ModulePut(reg, d.dir, ModuleRecord(d, d.dir, FALSE, d.manifest, FALSE, FALSE))
  ELSE IF d.catalog = "tool" /\ "tool" \notin d.provides THEN reg
  ELSE IF d.catalog = "service" /\ "service" \notin d.provides THEN reg
  ELSE IF "service" \in d.provides /\ ~d.serviceOk
    THEN ModulePut(reg, d.name,
                   ModuleRecord(d, d.name, FALSE, "Failed to load service", FALSE, FALSE))
  ELSE IF "tool" \in d.provides /\ ~d.toolOk
    THEN ModulePut(reg, d.name,
                   ModuleRecord(d, d.name, FALSE, "Failed to load tools",
                                "service" \in d.provides, FALSE))
  ELSE ModulePut(reg, d.name,
                 ModuleRecord(d, d.name, TRUE, "", "service" \in d.provides,
                              "tool" \in d.provides))

\* variant: the registry of the run before is kept
keepModules(reg) == reg

\* this.loadedModules.clear()
clearModules(reg) == NoModules

InitLoad ==
  /\ SmQuiet(StartContent) /\ DbInit /\ RlInit(StartContent)
  /\ rc = RcOff /\ mem = <<>> /\ ps = PsOff
  /\ \E ds \in SUBSET ModuleDirs :
       /\ Cardinality(ds) \in 2..MaxDirs
       /\ \A d, e \in ds : PathOf(d) = PathOf(e) => d = e
       /\ ml = [MlOff EXCEPT !.pc = "idle", !.disk = ds]

LoadFrame == UNCHANGED <<smVars, dbVars, rlVars, cfVars, psVars>>

\* loadAllModules starts: the Map is cleared and the directories are read
LoadAllStart ==
  /\ ml.pc \in {"idle", "done"}
  /\ ml.runs < MaxRuns
  /\ ml' = [ml EXCEPT !.pc = "scan", !.todo = ScanOrder(ml.disk),
                      !.reg = clearModules(ml.reg), !.runs = @ + 1,
                      !.prev = DOMAIN ml.reg, !.found = ml.disk]
  /\ LoadFrame

\* await this.loadModule(...) of the next directory returns
LoadModuleStep ==
  /\ ml.pc = "scan"
  /\ ml.todo # <<>>
  /\ ml' = [ml EXCEPT !.reg = loadModule(ml.reg, Head(ml.todo)), !.todo = Tail(@)]
  /\ LoadFrame

\* the last loop ends and loadAllModules returns this.loadedModules
LoadAllDone ==
  /\ ml.pc = "scan"
  /\ ml.todo = <<>>
  /\ ml' = [ml EXCEPT !.pc = "done"]
  /\ LoadFrame

\* between two runs a module directory is deleted
RemoveDir(d) ==
  /\ ml.pc = "done"
  /\ ml.runs < MaxRuns
  /\ d \in ml.disk
  /\ ml' = [ml EXCEPT !.disk = @ \ {d}]
  /\ LoadFrame

NextLoad ==
  \/ LoadAllStart
  \/ LoadModuleStep
  \/ LoadAllDone
  \/ \E d \in ModuleDirs : RemoveDir(d)

SpecLoad == InitLoad /\ [][NextLoad]_vars

(***************************************************************************)
(* The enabled-flag specification: initializeService calls for agent a2    *)
(* and the disabled agent while a hot reload disables a2, whose service S1 *)
(* is cached                                                               *)
(***************************************************************************)
\* configs/agents.json saved with a2 disabled
DisableA2 == Content("ok", [ReloadAgents EXCEPT !["a2"].enabled = FALSE])

InitEnable ==
  /\ agentsConfig = ReloadStart
  /\ registry = RegistryOf(ReloadStart)
  /\ graph = Graph(NoDeps, NoDeps)
  /\ insts = <<Up("a2", "S1", {})>>
  /\ services = [a \in AgentIds |-> IF a = "a2" THEN <<Entry("S1", 1)>> ELSE <<>>]
  /\ keyOrder = <<"a2">>
  /\ procs = [p \in Procs |-> Idle]
  /\ nCalls = 0
  /\ hist = [HistInit EXCEPT !.everCached["a2"] = {"S1"}]
  /\ DbInit
  /\ RlInit(ReloadStart)
  /\ OtherQuiet

EnableCalls == {<<"a2", "S1">>, <<"a2", "S2">>, <<"a2", "S3">>, <<"ax", "S1">>}

NextEnable ==
  \/ EditFile(DisableA2)
  \/ WatchFire
  \/ LoadStep
  \/ RegistryStep
  \/ RegistryAgent
  \/ \E p \in Procs :
    \/ \E c \in EnableCalls : StartInit(p, c[1], c[2])
    \/ ConfigDone(p)
    \/ InitDone(p)
    \/ RestoreDone(p)
    \/ SetStateDone(p)
    \/ FailCleanupDone(p)

SpecEnable == InitEnable /\ [][NextEnable]_vars

(***************************************************************************)
(* The tool call specification: tool calls, the initializations they start *)
(* and cleanupAgent                                                        *)
(***************************************************************************)
ToolCalls ==
  {<<"a1", "S1">>, <<"a1", "S2">>, <<"a1", "T1">>, <<"a2", "S2">>, <<"ax", "S1">>}

NextTool ==
  \E p \in Procs :
    \/ \E c \in ToolCalls : StartTool(p, c[1], c[2])
    \/ ToolLookup(p)
    \/ ToolInvoke(p)
    \/ ToolDone(p)
    \/ ConfigDone(p)
    \/ ContinueDeps(p)
    \/ InitDone(p)
    \/ RestoreDone(p)
    \/ SetStateDone(p)
    \/ FailCleanupDone(p)
    \/ \E a \in CleanupCalls : StartCleanupAgent(p, a)
    \/ CleanupHookDone(p)

SpecTool == Init /\ [][NextTool]_vars

(***************************************************************************)
(* The shutdown specification: one shutdown, with S1 and S2 of a1 cached,  *)
(* and initializeService calls that overlap it                             *)
(***************************************************************************)
InitShutdown ==
  /\ agentsConfig = ReloadStart
  /\ registry = RegistryOf(ReloadStart)
  /\ graph = Graph(NoDeps, NoDeps)
  /\ insts = <<Up("a1", "S1", {}), Up("a1", "S2", {"S1"})>>
  /\ services = [a \in AgentIds |->
                   IF a = "a1" THEN <<Entry("S1", 1), Entry("S2", 2)>> ELSE <<>>]
  /\ keyOrder = <<"a1">>
  /\ procs = [p \in Procs |-> Idle]
  /\ nCalls = 0
  /\ hist = [HistInit EXCEPT !.everCached["a1"] = {"S1", "S2"}]
  /\ DbInit
  /\ RlInit(ReloadStart)
  /\ OtherQuiet

ShutdownCalls == {<<"a1", "S3">>, <<"a2", "S2">>}

NextShutdown ==
  \E p \in Procs :
    \/ StartShutdown(p)
    \/ ShutGetStateDone(p)
    \/ ShutWriteDone(p)
    \/ NextCleanup(p)
    \/ CleanupHookDone(p)
    \/ \E c \in ShutdownCalls : StartInit(p, c[1], c[2])
    \/ ConfigDone(p)
    \/ InitDone(p)
    \/ RestoreDone(p)
    \/ SetStateDone(p)
    \/ FailCleanupDone(p)

SpecShutdown == InitShutdown /\ [][NextShutdown]_vars

(***************************************************************************)
(* Properties of the ServiceManager                                        *)
(***************************************************************************)
Pairs == AgentIds \X ServiceNames

InvokedOf(a, s) == {i \in InstsOf(a, s) : InitInvoked(i)}
LiveOf(a, s) == {i \in InstsOf(a, s) : Live(i)}

\* C1: when initializeService calls for the same uncached (agent, service)
\* overlap, with no failure and no cleanup of the agent, the init hook is
\* invoked once for the pair and every call returns the same instance.
C1_OverlapCoalesced ==
  \A pr \in Pairs :
    LET a == pr[1]
        s == pr[2]
    IN (s \in hist.overlapped[a] /\ s \notin hist.failed[a]
          /\ a \notin hist.cleanupStarted)
         => /\ Cardinality(InvokedOf(a, s)) <= 1
            /\ Cardinality(Range(hist.returned[a][s])) <= 1

\* C2: every (agent, service) pair has at most one live instance: one whose
\* init hook resolved and whose cleanup hook has not been invoked.
C2_AtMostOneLive ==
  \A pr \in Pairs : Cardinality(LiveOf(pr[1], pr[2])) <= 1

\* C3: for an acyclic dependency graph, the init hook of a service is
\* invoked only after every service of its transitive dependency set has
\* been cached for the agent; the dependencies are all still cached at that
\* moment unless a cleanup of the agent has been started.
C3_DepsBeforeInit ==
  \A i \in 1..Len(insts) :
    (InitInvoked(i) /\ ~CycleFrom(graph, insts[i].svc))
      => /\ TransDeps(graph, insts[i].svc) \subseteq insts[i].seen
         /\ insts[i].agent \notin hist.cleanupStarted
              => TransDeps(graph, insts[i].svc) \subseteq insts[i].now

\* an init hook was invoked for a service with a two-level dependency chain
C3_Witness ==
  \E i \in 1..Len(insts) :
    /\ InitInvoked(i)
    /\ insts[i].svc = "S3"
    /\ TransDeps(graph, "S3") = {"S1", "S2"}
    /\ AllDeps(graph, "S3") = <<"S2">>

\* C4: with a dependency cycle reachable from the service, the call fails
\* with a cycle error as soon as it re-enters a service it is still
\* initializing, so no call stack ever names a service twice, and no
\* service on the cycle is cached.
C4_CycleFails ==
  /\ \A p \in Procs : \A j, k \in 1..Len(procs[p].stack) :
       j # k => procs[p].stack[j].svc # procs[p].stack[k].svc
  /\ \A a \in AgentIds : \A s \in Cached(a) : s \notin TransDeps(graph, s)

\* C5: for non-overlapping initializeService calls of a pair with no
\* cleanup of the agent in between, every call that returns hands out the
\* one cached instance, one init hook invocation did not reject, and when no
\* call of the pair failed the init hook was invoked exactly once.
C5_Idempotent ==
  \A pr \in Pairs :
    LET a == pr[1]
        s == pr[2]
        ret == hist.returned[a][s]
    IN (s \notin hist.overlapped[a] /\ a \notin hist.cleanupStarted /\ ret # <<>>)
         => /\ \A k \in 1..Len(ret) : ret[k] = getService(a, s) /\ ret[k] # 0
            /\ Cardinality({i \in InstsOf(a, s) : insts[i].st \in {"initing", "live"}}) = 1
            /\ s \notin hist.failed[a] => Cardinality(InvokedOf(a, s)) = 1

\* a second call of a pair has returned, after the first and with no
\* cleanup and no failure
C5_Witness ==
  \E pr \in Pairs :
    /\ pr[2] \notin hist.overlapped[pr[1]]
    /\ pr[2] \notin hist.failed[pr[1]]
    /\ pr[1] \notin hist.cleanupStarted
    /\ Len(hist.returned[pr[1]][pr[2]]) >= 2

(***************************************************************************)
(* Properties of the scoped stores                                         *)
(***************************************************************************)
\* C6: what read() through the store of a pair returns, the file's subtree
\* of that pair, changes only when a write called through that pair's own
\* store reaches the file; writes through other pairs' stores leave it.
C6_StoresIsolated ==
  [][\A q \in DBPairs :
       dbFile'[q] # dbFile[q]
         => \E i \in writer.locked.waiters : ops[i].pair = q]_vars

\* C7: when the only calls are update() calls on the stores of different
\* agents, every update that has returned is in the file, however the calls
\* were interleaved.
C7_NoLostUpdate ==
  \A i \in 1..Len(ops) :
    (/\ ops[i].pc = "done"
     /\ \A j \in 1..Len(ops) : ops[j].op = "update"
     /\ \A j \in 1..Len(ops) : j # i => ops[j].pair[1] # ops[i].pair[1])
      => i \in dbFile[ops[i].pair]

(***************************************************************************)
(* Properties of hot reload                                                *)
(***************************************************************************)
\* the module values of a file that their module's schema rejects
SchemaViolations(c) ==
  {pr \in AgentIds \X ModuleNames :
     /\ c.kind = "ok"
     /\ pr[1] \in DOMAIN c.agents
     /\ pr[2] \in DOMAIN c.agents[pr[1]].modules
     /\ ~resolveModuleConfig(c, pr[1], pr[2]).ok}

InvalidContent(c) == c.kind # "ok" \/ SchemaViolations(c) # {}

\* the reload has read the file, and the file is still what it read
Reloaded == rl.loaded # Unread /\ cfgFile = rl.loaded

\* C8: when the content a reload reads is invalid (it does not parse, is not
\* an object with agents, or holds a module value its schema rejects), the
\* ConfigLoader keeps the config it held before the reload and
\* resolveModuleConfig keeps answering from it.
C8_InvalidReloadKeepsConfig ==
  (Reloaded /\ InvalidContent(rl.loaded))
    => /\ agentsConfig = rl.prev
       /\ \A a \in AgentIds, m \in ModuleNames :
            resolveModuleConfig(agentsConfig, a, m) = resolveModuleConfig(rl.prev, a, m)

\* C9: a reload that reads a file with a module value its schema rejects is
\* aborted: it does not end as reloaded successfully, and no onConfigChange
\* hook is invoked with the rejected value.
C9_SchemaViolationAborts ==
  (rl.loaded.kind = "ok" /\ SchemaViolations(rl.loaded) # {})
    => /\ rl.result # "ok"
       /\ \A k \in 1..Len(rl.hooks) :
            <<rl.hooks[k].agent, rl.hooks[k].module>> \notin SchemaViolations(rl.loaded)

\* the (agent, module) pairs in both configs whose values differ and whose
\* cached instance implements onConfigChange
ExpectedHooks(old, new) ==
  {pr \in AgentIds \X ModuleNames :
     /\ pr[1] \in DOMAIN old.agents /\ pr[1] \in DOMAIN new.agents
     /\ pr[2] \in DOMAIN old.agents[pr[1]].modules
     /\ pr[2] \in DOMAIN new.agents[pr[1]].modules
     /\ old.agents[pr[1]].modules[pr[2]] # new.agents[pr[1]].modules[pr[2]]
     /\ getService(pr[1], pr[2]) # 0
     /\ HasOnConfigChange(pr[2])}

\* C10: after a reload of a valid file has succeeded, each expected
\* (agent, module) has had its onConfigChange hook invoked exactly once,
\* with the previous and the new module value.
C10_HookOncePerChange ==
  (rl.result = "ok" /\ rl.prev.kind = "ok" /\ ~InvalidContent(rl.loaded))
    => \A pr \in ExpectedHooks(rl.prev, rl.loaded) :
         Cardinality({k \in 1..Len(rl.hooks) :
            rl.hooks[k] = HookCall(pr[1], pr[2],
                            rl.prev.agents[pr[1]].modules[pr[2]],
                            rl.loaded.agents[pr[1]].modules[pr[2]])}) = 1

\* what the registry knows of the agents: who they are, whether each is
\* enabled, and the names of each one's modules
RegistryShape(reg) ==
  [a \in DOMAIN reg |-> [enabled |-> reg[a].enabled, modules |-> DOMAIN reg[a].modules]]

\* C11: outside a reload, the agents, their enabled flags and their module
\* lists as the AgentRegistry knows them are those of startup, whatever
\* reloads have happened; so an agent the file gained or enabled since then
\* passes no isEnabled check.
C11_RegistryFrame ==
  rl.pc = "idle" => RegistryShape(registry) = RegistryShape(RegistryOf(ReloadStart))

\* C12: at most one handleConfigChange activation is in flight, exactly
\* while isReloading is set; and a change notification that is delivered
\* while isReloading is set starts nothing: the reload in flight keeps its
\* position and its locals, and the list of hook calls does not grow.
C12_SingleReload ==
  /\ [](rl.active <= 1 /\ (isReloading <=> rl.active = 1))
  /\ [][(dirty /\ isReloading /\ ~dirty')
          => /\ rl' = [rl EXCEPT !.skipped = TRUE]
             /\ isReloading'
             /\ agentsConfig' = agentsConfig
             /\ registry' = registry]_vars

\* a notification was dropped during a reload that is still in flight
C12_Witness == isReloading /\ rl.skipped /\ rl.pc # "idle"

CleanupReturns(p) == Cleaning(p) /\ procs[p].cIdx > 0 /\ procs'[p].cIdx = 0

InitFails(p) ==
  /\ Running(p)
  /\ Top(p).pc \in {"init", "failCleanup"}
  /\ procs'[p] # procs[p]
  /\ insts'[Top(p).inst].st = "failed"

\* C15: an instance whose init rejected has had its cleanup hook, if it has
\* one, invoked once and is never cached; the steps that handle the
\* rejection change nothing in the cache, so the dependencies initialized
\* before stay cached, and whether or not that cleanup rejects the call
\* ends with the ServiceError that names the service and the agent.
C15_InitFailure ==
  /\ [](\A i \in 1..Len(insts) :
          insts[i].st = "failed"
            => /\ insts[i].cleanups = IF HasCleanup(insts[i].svc) THEN 1 ELSE 0
               /\ \A a \in AgentIds : \A k \in 1..Len(services[a]) :
                    services[a][k].inst # i)
  /\ [][\A p \in Procs :
          InitFails(p)
            => /\ services' = services
               /\ keyOrder' = keyOrder
               /\ procs'[p].op = "idle"
                    => hist'.errors = hist.errors \cup
                         {Error(procs[p].op, "service", Top(p).svc, CurAgent(p))}]_vars

\* the init of a service with cached dependencies rejected, its cleanup
\* rejected too, the call has ended and the dependencies are still cached
C15_Witness ==
  \E i \in 1..Len(insts) :
    /\ insts[i].st = "failed" /\ insts[i].swallowed /\ insts[i].cleanups = 1
    /\ TransDeps(graph, insts[i].svc) # {}
    /\ TransDeps(graph, insts[i].svc) \subseteq Cached(insts[i].agent)
    /\ \E e \in hist.errors : e.svc = insts[i].svc /\ e.agent = insts[i].agent

\* C16: every initializeService call that rejects hands its caller a
\* ServiceError, the error class that carries serviceName and agentId.
C16_FailuresAreServiceErrors ==
  \A e \in hist.errors : e.op = "init" => e.kind = "service"

EagerCompletes(p) ==
  /\ procs[p].op = "eager"
  /\ procs'[p].op = "idle"
  /\ hist'.rejected = hist.rejected

\* the services of a that the spec wants brought up eagerly: declared,
\* loaded, providing a service, and lazy = false in the resolved config
ResolvedEager(a) ==
  {m \in DOMAIN registry[a].modules :
     /\ ModuleLoaded(m) /\ HasFactory(m)
     /\ LET r == resolveModuleConfig(agentsConfig, a, m)
        IN r.ok /\ "lazy" \in DOMAIN r.cfg /\ r.cfg["lazy"] = Bool(FALSE)}

\* C18: when initializeEagerServices returns without an error and no
\* cleanup ran meanwhile, every enabled agent has cached every declared
\* service whose resolved configuration (manifest default, external file
\* or inline value) has lazy = false.
C18_EagerByResolvedConfig ==
  [][\A p \in Procs :
       (EagerCompletes(p) /\ hist.cleanupStarted = {})
         => \A a \in AgentIds :
              isEnabled(a) => \A m \in ResolvedEager(a) : hasService(a, m)]_vars

\* S2 depends on S1 and S1 on nothing
S2NeedsS1 == "S1" \in Range(AllDeps(graph, "S2")) /\ AllDeps(graph, "S1") = <<>>

\* p is the eager pass, at work on agent a1
EagerOnA1(p) == procs[p].op = "eager" /\ Running(p) /\ CurAgent(p) = "a1"

\* the step of p invokes the init of S2
InvokesInitS2(p) ==
  /\ procs'[p] # procs[p]
  /\ procs'[p].stack # <<>>
  /\ LET top == procs'[p].stack[Len(procs'[p].stack)]
     IN top.svc = "S2" /\ top.pc = "init"

\* the step of p is the one at which initializeService(a1, S1) rejects
\* because the init of S1 rejected
RejectsS1(p) ==
  /\ Top(p).svc = "S1"
  /\ InitFails(p)
  /\ ~(procs'[p].stack # <<>>
       /\ procs'[p].stack[Len(procs'[p].stack)].pc = "failCleanup")

\* C19: with S1 and S2 eager for a1 and S2 depending on S1, the pass invokes
\* the init of S2 only after an init of S1 has resolved; when the init of S1
\* rejects, the pass ends at that step with the ServiceError naming S1 and
\* a1, S2 is still waiting in the list of the pass and no init of S2 was
\* invoked by it.
C19_EagerOrderAndFailure ==
  [][\A p \in Procs :
       (S2NeedsS1 /\ EagerOnA1(p))
         => /\ InvokesInitS2(p)
                => \E i \in InstsOf("a1", "S1") : insts[i].st = "live"
            /\ RejectsS1(p)
                => /\ procs'[p] = Idle
                   /\ hist'.errors = hist.errors \cup
                                       {Error("eager", "service", "S1", "a1")}
                   /\ hist'.rejected = hist.rejected + 1
                   /\ \A k \in 1..Len(procs[p].stack) :
                        procs[p].stack[k].svc = "S2"
                          => insts[procs[p].stack[k].inst].st = "new"
                   /\ Head(procs[p].plan).svc = "S1"
                        => Item("a1", "S2") \in Range(Tail(procs[p].plan))]_vars

\* the eager pass has ended with the error of S1 for a1 and no init of S2
\* was ever invoked for a1
C19_Witness ==
  /\ S2NeedsS1
  /\ Error("eager", "service", "S1", "a1") \in hist.errors
  /\ \E i \in InstsOf("a1", "S1") : insts[i].st = "failed"
  /\ \A i \in InstsOf("a1", "S2") : ~InitInvoked(i)
  /\ \A p \in Procs : procs[p].op = "idle"

\* the initializeEagerServices call of p ends at this step because an
\* initializeService it awaited rejected
EagerFails(p) ==
  /\ procs[p].op = "eager"
  /\ Running(p)
  /\ procs'[p].op = "idle"
  /\ hist'.rejected = hist.rejected + 1

\* C20: when an eager service of one agent fails during a pass and no
\* cleanup ran meanwhile, every eager service of every other enabled agent
\* is cached when the pass ends, unless its own initialization failed.
C20_EagerFailureIsolated ==
  [][\A p \in Procs :
       (EagerFails(p) /\ hist.cleanupStarted = {})
         => \A b \in AgentIds \ {CurAgent(p)} :
              isEnabled(b)
                => \A m \in Range(eagerServices(b)) :
                     hasService(b, m) \/ m \in hist.failed[b]]_vars

(***************************************************************************)
(* Properties of resolveModuleConfig                                       *)
(***************************************************************************)
\* the three sources of a call: inline values, external file, defaults
InlineOf(e) == Without(e, "config_file")
FileOf(e) ==
  IF "config_file" \in DOMAIN e /\ e["config_file"][2] \in DOMAIN ExternalFiles
    THEN ExternalFiles[e["config_file"][2]] ELSE EmptyObj

\* C21: for every key k that a source sets, the object resolveModuleConfig
\* returns holds the inline value of k if the module entry sets it, else the
\* value of the external file if the file sets it, else the manifest
\* default; the config_file key is never part of the result.
C21_Precedence ==
  (rc.pc = "done" /\ rc.present /\ rc.result.ok)
    => LET inline == InlineOf(rc.entry)
           file == FileOf(rc.entry)
           defaults == defaultsOf(rc.schema)
       IN /\ \A k \in DOMAIN inline \cup DOMAIN file \cup DOMAIN defaults :
               /\ k \in DOMAIN rc.result.cfg
               /\ rc.result.cfg[k] =
                    IF k \in DOMAIN inline THEN inline[k]
                    ELSE IF k \in DOMAIN file THEN file[k]
                    ELSE defaults[k]
          /\ "config_file" \notin DOMAIN rc.result.cfg

\* the entry of (a, m) in the loaded config names an external file that
\* does not exist
MissingFile(a, m) ==
  /\ agentsConfig.kind = "ok"
  /\ a \in DOMAIN agentsConfig.agents
  /\ m \in DOMAIN agentsConfig.agents[a].modules
  /\ LET e == agentsConfig.agents[a].modules[m]
     IN "config_file" \in DOMAIN e /\ e["config_file"][2] \notin DOMAIN ExternalFiles

\* C22: when the module entry of (A, S) names an external config file that
\* does not exist, resolveModuleConfig fails, no instance of (A, S) ever has
\* its init invoked or is cached, and the initializeService call that
\* reaches the resolution ends there with an error.
C22_MissingFileFails ==
  /\ [](\A pr \in Pairs :
          MissingFile(pr[1], pr[2])
            => /\ ~resolveModuleConfig(agentsConfig, pr[1], pr[2]).ok
               /\ InvokedOf(pr[1], pr[2]) = {}
               /\ ~hasService(pr[1], pr[2]))
  /\ [][\A p \in Procs :
          (/\ Running(p) /\ Top(p).pc = "config" /\ procs'[p] # procs[p]
           /\ MissingFile(CurAgent(p), Top(p).svc))
            => /\ procs'[p] = Idle
               /\ hist'.rejected = hist.rejected + 1
               /\ insts' = insts /\ services' = services]_vars

\* an initializeService call for a pair whose external file is missing has
\* ended with an error
C22_Witness ==
  \E e \in hist.errors :
    /\ e.op = "init"
    /\ e.svc \in ServiceNames
    /\ MissingFile(e.agent, e.svc)
    /\ InstsOf(e.agent, e.svc) = {}

\* C23: every config object handed to an init hook satisfies the config
\* schema of its module, also when the agent has no entry for the module
\* and the config consists of the manifest defaults alone.
C23_InitConfigValid ==
  \A i \in 1..Len(insts) :
    (InitInvoked(i) /\ ConfigSchema(insts[i].svc).present)
      => validateConfig(insts[i].config, ConfigSchema(insts[i].svc)).valid

(***************************************************************************)
(* Properties of read() and of the snapshot                                *)
(***************************************************************************)
\* call i is a read() and this step is the one at which it returns
ReadReturns(i) ==
  ops[i].op = "read" /\ ops[i].pc = "reading" /\ ops'[i].pc = "done"

\* C24: read() on a scoped store returns the subtree the file holds for its
\* pair at that moment, and an empty object, never the missing value, when
\* the file has no such subtree; the read creates no subtree, leaves the
\* file as it is and starts no write.
C24_ReadReturnsSubtree ==
  [][\A i \in 1..Len(ops) :
       ReadReturns(i)
         => /\ ops'[i].res = IF dbFile[ops[i].pair] = Absent THEN {}
                             ELSE dbFile[ops[i].pair]
            /\ ops'[i].res # Absent
            /\ ops'[i].tree = dbFile
            /\ dbFile' = dbFile
            /\ writer' = writer]_vars

\* a read() of a pair without a subtree has returned the empty object, and
\* the file still has no subtree for the pair
C24_Witness ==
  \E i \in 1..Len(ops) :
    /\ ops[i].op = "read" /\ ops[i].pc = "done"
    /\ ops[i].res = {}
    /\ dbFile[ops[i].pair] = Absent

\* C25: when persistAllStates has completed, every cached instance that
\* implements getState has been asked for its state, whatever happened to
\* the instances before it; where getState and the write succeeded the
\* file's subtree of the pair is the value getState returned, and the
\* subtrees of the instances without getState are what they were.
C25_SnapshotWritesStates ==
  ps.pc = "persisted"
    => \A pr \in PersistPairs :
         IF HasGetState(pr[2])
           THEN /\ ps.got[pr].tried
                /\ ps.got[pr].ok => ps.got[pr].value = mem[pr]
                /\ ps.got[pr].wrote => dbFile[pr] = ps.got[pr].value
           ELSE dbFile[pr] = ps.start[pr]

\* the snapshot has completed, the getState or the write of the first
\* instance failed and the state of a later one is in the file
C25_Witness ==
  /\ ps.pc = "persisted"
  /\ ps.got[<<"a1", "S1">>].tried /\ ~ps.got[<<"a1", "S1">>].wrote
  /\ ps.got[<<"a2", "S1">>].wrote
  /\ dbFile[<<"a2", "S1">>] = mem[<<"a2", "S1">>]
  /\ dbFile[<<"a1", "S3">>] = PersistFile[<<"a1", "S3">>]

\* C26: for a service whose getState and setState are inverses, the
\* instance that initializeService builds after a snapshot and a restart
\* holds the state the service had when the snapshot was taken, whatever
\* that state was.
C26_SnapshotRoundTrip ==
  \A pr \in PersistPairs :
    (/\ ps.pc = "restarted"
     /\ hasService(pr[1], pr[2])
     /\ HasGetState(pr[2]) /\ HasSetState(pr[2])
     /\ ps.got[pr].wrote)
      => mem[pr] = ps.before[pr]

(***************************************************************************)
(* Properties of module discovery                                          *)
(***************************************************************************)
\* this step is loadModule on a directory that fails to load
FailingLoad(d) ==
  /\ ml.pc = "scan" /\ ml.todo # <<>> /\ Head(ml.todo) = d
  /\ ml'.todo = Tail(ml.todo)
  /\ LoadFails(d)

\* C27: when a module directory fails to load, loadedModules holds
\* afterwards a record with an error for that directory, and the record of
\* every module loaded from another directory is still there, unchanged.
C27_LoadFailureIsolated ==
  [][\A d \in ModuleDirs :
       FailingLoad(d)
         => /\ \E k \in DOMAIN ml'.reg :
                 ml'.reg[k].path = PathOf(d) /\ ml'.reg[k].error # ""
            /\ \A k \in DOMAIN ml.reg :
                 ml.reg[k].path # PathOf(d)
                   => k \in DOMAIN ml'.reg /\ ml'.reg[k] = ml.reg[k]]_vars

\* the keys under which the directories the run has read are recorded
Discovered ==
  {k \in {"m1", "m2", "m3", "m4"} :
     \E d \in ml.found : k \in DOMAIN loadModule(NoModules, d)}

\* C28: when a run of loadAllModules has returned, loadedModules holds
\* exactly the modules that run found: a module of an earlier run whose
\* directory is gone has no entry.
C28_RerunReplacesRegistry ==
  ml.pc = "done"
    => /\ DOMAIN ml.reg = Discovered
       /\ \A k \in ml.prev : k \notin Discovered => k \notin DOMAIN ml.reg

\* a second run has returned and a module of the first run is gone
C28_Witness ==
  /\ ml.pc = "done"
  /\ ml.runs = 2
  /\ \E k \in ml.prev : k \notin DOMAIN ml.reg

(***************************************************************************)
(* Properties of the life of an (agent, service) pair                      *)
(***************************************************************************)
\* C29: once cleanupAgent(A) has cleaned up the instance of (A, S) and
\* dropped it from the cache, no instance of S that is built for A
\* afterwards is ever initialized and cached: (A, S) is not running again.
C29_CleanedUpIsTerminal ==
  \A c \in hist.cleaned :
    \A j \in InstsOf(c.agent, c.svc) :
      j > c.at => ~(Live(j) /\ getService(c.agent, c.svc) = j)

\* C30: after the init of (A, S) has rejected, the init hook of S is
\* invoked again for A only in another operation issued by a caller, never
\* in the operation that failed, and on an instance built anew by the
\* factory: the failed instance stays failed.
C30_RetryOnlyByCaller ==
  /\ [](\A i, j \in 1..Len(insts) :
          (/\ i < j
           /\ insts[i].agent = insts[j].agent /\ insts[i].svc = insts[j].svc
           /\ insts[i].st = "failed" /\ InitInvoked(j))
            => insts[j].call # insts[i].call)
  /\ [][\A i \in 1..Len(insts) :
          insts[i].st = "failed" => insts'[i].st = "failed"]_vars

\* the init of a pair rejected and a later call has invoked the init hook
\* on a new instance of the pair
C30_Witness ==
  \E i, j \in 1..Len(insts) :
    /\ i < j
    /\ insts[i].agent = insts[j].agent /\ insts[i].svc = insts[j].svc
    /\ insts[i].st = "failed" /\ InitInvoked(j)
    /\ insts[j].call > insts[i].call

(***************************************************************************)
(* Properties of calls for agents that are not enabled                     *)
(***************************************************************************)
\* an initializeService call of p for agent a gets past its checks
EntersInit(p, a) ==
  /\ Len(procs'[p].stack) > Len(procs[p].stack)
  /\ Head(procs'[p].plan).agent = a

\* C31: while the registry does not hold agent A as enabled, no
\* initializeService call for A gets past its checks, so no instance is built
\* and no init hook invoked for it, and a call a caller issues for A returns
\* no instance and leaves the cache of A as it is.
C31_DisabledAgentNoInit ==
  [][\A a \in AgentIds :
       ~isEnabled(a)
         => /\ \A p \in Procs : ~EntersInit(p, a)
            /\ nCalls' = nCalls + 1
                 => /\ hist'.returned[a] = hist.returned[a]
                    /\ services'[a] = services[a]]_vars

(***************************************************************************)
(* Properties of the request handler                                       *)
(***************************************************************************)
\* C32: whenever the tool handler of a module that provides a service is
\* called for agent A, the service of that module is cached for A at that
\* moment; a call whose agent is not enabled, or whose lazy initialization
\* failed, calls no tool handler.
C32_HandlerNeedsService ==
  /\ [](\A h \in hist.handled :
          /\ ProvidesService(h.module) => h.cached
          /\ isEnabled(h.agent)
          /\ \A i \in 1..Len(insts) : insts[i].st = "failed" => insts[i].call # h.call)
  /\ [][\A a \in AgentIds :
          (~isEnabled(a) /\ nCalls' = nCalls + 1)
            => {h \in hist'.handled : h.agent = a} = {h \in hist.handled : h.agent = a}]_vars

(***************************************************************************)
(* Properties of the eager pass on a dependency cycle                      *)
(***************************************************************************)
\* the services that s reaches through dependencies that stay inside names
RECURSIVE ReachWithin(_, _, _)
ReachWithin(names, frontier, seen) ==
  IF frontier \subseteq seen THEN seen
  ELSE ReachWithin(names,
         UNION {Range(AllDeps(graph, x)) \cap names : x \in frontier},
         seen \cup frontier)

\* the eager services of agent a form a dependency cycle
EagerCycle(a) ==
  /\ isEnabled(a)
  /\ LET names == Range(eagerServices(a))
     IN \E s \in names :
          s \in ReachWithin(names, Range(AllDeps(graph, s)) \cap names, {})

\* C33: when the eager services of an agent form a dependency cycle, no
\* eager pass builds an instance for that agent, so it invokes no init hook
\* and caches nothing for it; a pass is over as soon as it reaches the
\* agent, and the error it ends with for the agent is the cycle error.
C33_EagerCycleFails ==
  \A a \in AgentIds :
    EagerCycle(a)
      => /\ \A i \in 1..Len(insts) : insts[i].agent = a => insts[i].op # "eager"
         /\ \A p \in Procs : procs[p].op = "eager" => a \in Range(procs[p].agents)
         /\ \A e \in hist.errors :
              (e.op = "eager" /\ e.agent = a) => e.kind = "cycle"

\* an eager pass has ended with the cycle error for an agent whose eager
\* services form a cycle
C33_Witness ==
  \E e \in hist.errors :
    e.op = "eager" /\ e.kind = "cycle" /\ EagerCycle(e.agent)

(***************************************************************************)
(* Properties of a reload that the agent registry rejects                  *)
(***************************************************************************)
\* C34: when AgentRegistry.loadConfig has rejected an agent entry of the
\* new content, the registry holds the agents, enabled flags and module
\* lists it held when the reload started.
C34_RejectedReloadKeepsRegistry ==
  rl.rejected # ""
    => RegistryShape(registry) = RegistryShape(rl.regBefore)

(***************************************************************************)
(* Properties of the shutdown                                              *)
(***************************************************************************)
\* the cleanupAll of the shutdown returns in this step: process.exit(0)
Exits(p) == procs[p].op = "cleanupAll" /\ procs'[p].op = "idle"

\* C35: in a shutdown, the cleanup hook of an initialized instance that has
\* getState is invoked only after a persistAllStates pass has written the
\* state the instance exported, and when the process exits every cached
\* instance that has a cleanup hook has had it invoked.
C35_ShutdownOrder ==
  [][/\ \A i \in 1..Len(insts) :
          (/\ insts[i].st = "live" /\ insts'[i].cleanups > insts[i].cleanups
           /\ HasGetState(insts[i].svc))
            => insts[i].saved
     /\ \A p \in Procs :
          Exits(p)
            => \A a \in AgentIds : \A k \in 1..Len(services'[a]) :
                 HasCleanup(services'[a][k].svc)
                   => insts'[services'[a][k].inst].cleanups > 0]_vars

(***************************************************************************)
(* the restore step of initializeService                                   *)
(***************************************************************************)
\* instance i is the one the cache of its agent holds for its service
InCache(i) == getService(insts[i].agent, insts[i].svc) = i

\* this step invokes setState on instance i
SetStateInvoked(i) == insts'[i].setStates > insts[i].setStates

\* in this step an await of the restore step of instance i rejects
RestoreRejects(i) == insts[i].caught = "" /\ insts'[i].caught # ""

\* C36: setState is invoked only on an instance whose init succeeded, whose
\* persisted subtree is not empty and which is not yet in the cache; an
\* instance whose init failed never had setState invoked; and a rejected read
\* of the subtree or a rejected setState does not fail the initialization:
\* the instance is cached as running, no error is raised and its cleanup
\* hook is not invoked
C36_RestoreAfterInit ==
  /\ [](\A i \in 1..Len(insts) :
          /\ insts[i].st = "failed" => insts[i].setStates = 0
          /\ insts[i].setStates > 0 =>
               /\ <<insts[i].agent, insts[i].svc>> \in Persisted
               /\ HasSetState(insts[i].svc)
          /\ insts[i].caught # "" => insts[i].st # "failed")
  /\ [][\A i \in 1..Len(insts) :
          /\ SetStateInvoked(i) =>
               /\ insts[i].st = "live"
               /\ ~InCache(i)
               /\ ~InCache(i)'
          /\ RestoreRejects(i) =>
               /\ insts'[i].st = "live"
               /\ InCache(i)'
               /\ insts'[i].cleanups = insts[i].cleanups
               /\ hist'.rejected = hist.rejected
               /\ hist'.errors = hist.errors]_vars

\* an instance is cached after its setState rejected, another after the read
\* of its subtree rejected
C36_Witness ==
  /\ \E i \in 1..Len(insts) :
       insts[i].caught = "setState" /\ insts[i].setStates = 1 /\ InCache(i)
  /\ \E i \in 1..Len(insts) :
       insts[i].caught = "read" /\ insts[i].setStates = 0 /\ InCache(i)

\* C37: every dependency of a service cached as running for an agent is
\* cached as running for that agent
C37_DependenciesCached ==
  \A a \in AgentIds : \A k \in 1..Len(services[a]) :
    insts[services[a][k].inst].st = "live"
      => \A d \in Range(AllDeps(graph, services[a][k].svc)) :
           /\ hasService(a, d)
           /\ insts[getService(a, d)].st = "live"

\* the initializeService call that built instance i has not returned yet
Building(i) ==
  \E p \in Procs : \E k \in 1..Len(procs[p].stack) : procs[p].stack[k].inst = i

\* C38: every instance whose init hook completed successfully and whose
\* initializeService call has returned is the instance cached for its
\* (agent, service) pair or has had its cleanup hook invoked; an instance of
\* a service without a cleanup hook has no hook to invoke
C38_NoOrphan ==
  \A i \in 1..Len(insts) :
    (insts[i].st = "live" /\ ~Building(i) /\ HasCleanup(insts[i].svc))
      => (InCache(i) \/ insts[i].cleanups > 0)

(***************************************************************************)
(* Termination of initializeService: the calls alone, every await of a     *)
(* call in flight eventually settling                                      *)
(***************************************************************************)
\* the continuation of initializeService in slot p after one of its awaits
InitStep(p) ==
  \/ ConfigDone(p)
  \/ ContinueDeps(p)
  \/ InitDone(p)
  \/ RestoreDone(p)
  \/ SetStateDone(p)
  \/ FailCleanupDone(p)

NextTerm ==
  \E p \in Procs :
    \/ \E c \in InitCalls : StartInit(p, c[1], c[2])
    \/ InitStep(p)

\* every lifecycle hook and every config and store read terminates
SpecTerm ==
  Init /\ [][NextTerm]_vars /\ \A p \in Procs : WF_vars(InitStep(p))

\* the run has used up the instances the model allows
InstBound == Len(insts) >= MaxInst

SpecReloadFair ==
  /\ InitReload /\ [][NextReload]_vars
  /\ WF_vars(LoadStep) /\ WF_vars(RegistryStep)
  /\ WF_vars(RegistryAgent) /\ WF_vars(RestoreStep)

\* the watchFile listener runs on a change of the file
Notified == dirty /\ ~dirty'

\* C40: every reload attempt ends with isReloading false and no activation
\* left, whatever its outcome, and a notification that arrives while no
\* attempt is in flight starts a reload
C40_ReloadEnds ==
  /\ isReloading ~> (~isReloading /\ rl.pc = "idle" /\ rl.active = 0)
  /\ [][(Notified /\ ~isReloading)
          => (isReloading' /\ rl'.pc = "wait" /\ rl'.prev = agentsConfig)]_vars

\* a reload that AgentRegistry.loadConfig rejected has ended and the file
\* has changed again
C40_Witness ==
  /\ ~isReloading /\ rl.pc = "idle" /\ rl.result = "failed" /\ rl.rejected # ""
  /\ dirty

====
